---- MODULE Spec2Model ----
(***************************************************************************)
(* A model of the graphtransliterator engine: the tokenizer, the graph     *)
(* builder, the matcher, the driving loop and the ambiguity checker.       *)
(*                                                                         *)
(* Representation.                                                         *)
(*   - a character is a one-character string; a token (a Python str) is    *)
(*     the sequence of its characters, an input string likewise;           *)
(*   - a Python dict is a function, a missing key is a key outside its     *)
(*     DOMAIN; a Python list is a sequence; Python's 0-based keys (node    *)
(*     keys, rule keys, token positions) are kept, so list[k] is written   *)
(*     seq[k + 1];                                                         *)
(*   - a cost (a float) is a fixed-point integer, in thousandths;          *)
(*   - a call's outcome is a record whose status is "ok" or the name of    *)
(*     the exception raised.                                               *)
(***************************************************************************)
EXTENDS Integers, Sequences, FiniteSets, TLC

VARIABLES
    tokens,                 \* self._tokens: token -> set of classes
    tokens_by_class,        \* self._tokens_by_class: class -> set of tokens
    rules,                  \* self._rules: list of TransliterationRule
    onmatch_rules,          \* self._onmatch_rules: list of OnMatchRule
    whitespace,             \* self._whitespace: WhitespaceRules
    ignore_errors,          \* self._ignore_errors
    check_ambiguity,        \* self._check_ambiguity
    onmatch_rules_lookup,   \* self._onmatch_rules_lookup
    tokenizer_pattern,      \* self._tokenizer_pattern: the alternatives, in order
    graph,                  \* self._graph
    rule_keys,              \* self._rule_keys: keys of the last matched rules
    input_tokens,           \* self._input_tokens: <<>> until set, then <<list>>
    constructed,            \* "ok", or the exception __init__ raised
    op,                     \* the last operation called on the engine
    args,                   \* its arguments
    ret,                    \* its outcome
    history,                \* a transliterate call remembered: <<>> or <<call>>
    threads,                \* the transliterate calls of two concurrent callers
    visited                 \* the visited sets of a CoverageTransliterator, or <<>>

vars == <<tokens, tokens_by_class, rules, onmatch_rules, whitespace,
          ignore_errors, check_ambiguity, onmatch_rules_lookup,
          tokenizer_pattern, graph, rule_keys, input_tokens, constructed,
          op, args, ret, history, threads, visited>>

\* What the model remembers besides the engine and its last call.
aux == <<history, threads, visited>>

-----------------------------------------------------------------------------
(* Bounds of the model.                                                    *)

MaxRules == 3          \* rules of an engine
MaxOnMatch == 2        \* onmatch rules of an engine
MaxInput == 3          \* characters of an input string
MaxTokens == 3         \* tokens of a token list, between its two sentinels
MaxProductions == 2    \* productions of a list given to pruned_of
MaxRepeatInput == 1    \* characters of an input string of a repeated call
MaxCallInput == 2      \* characters of an input string of a concurrent call
MaxCoverageInput == 3  \* characters of an input string of a coverage call
MaxNodes == 2          \* nodes of a graph built call by call
MaxEdges == 2          \* entries of the edge list of such a graph
MaxStepInput == 2      \* characters or tokens of the input of a call run pass by pass

-----------------------------------------------------------------------------
(* Generic helpers.                                                        *)

Range(s) == {s[i] : i \in DOMAIN s}

SeqsUpTo(S, n) == UNION {[1..k -> S] : k \in 0..n}

Min(S) == CHOOSE m \in S : \A n \in S : m <= n

Max(S) == CHOOSE m \in S : \A n \in S : m >= n

\* dict.get(key) on a dict whose values are lists or dicts: the value, or an
\* empty (falsy) one.
Get(d, k) == IF k \in DOMAIN d THEN d[k] ELSE <<>>

\* d[k] = v
Put(d, k, v) == [x \in DOMAIN d \cup {k} |-> IF x = k THEN v ELSE d[x]]

\* d.pop(k)
Pop(d, k) == [x \in DOMAIN d \ {k} |-> d[x]]

\* sorted(s, key=...): a stable sort by the key function keyOf, whose domain
\* contains the elements of s.
RECURSIVE InsertSorted(_, _, _)
InsertSorted(s, x, keyOf) ==
    IF s = <<>> THEN <<x>>
    ELSE IF keyOf[s[Len(s)]] <= keyOf[x] THEN Append(s, x)
    ELSE Append(InsertSorted(SubSeq(s, 1, Len(s) - 1), x, keyOf), s[Len(s)])

RECURSIVE SortedFrom(_, _, _, _)
SortedFrom(s, i, acc, keyOf) ==
    IF i > Len(s) THEN acc
    ELSE SortedFrom(s, i + 1, InsertSorted(acc, s[i], keyOf), keyOf)

Sorted(s, keyOf) == SortedFrom(s, 1, <<>>, keyOf)

-----------------------------------------------------------------------------
(* Rules and their cost.                                                   *)

\* The default edge cost of _graph_from, curr_edge.get("cost", 1).
DefaultCost == 1000

\* log2(1 + 1 / (1 + n)) in thousandths, truncated.
Log2Table == <<584, 415, 321, 263, 222, 192, 169, 152, 137, 125>>

\* _num_tokens_of: the total number of tokens of a rule.
_num_tokens_of(rule) ==
    Len(rule.tokens) + Len(rule.prev_classes) + Len(rule.prev_tokens)
        + Len(rule.next_tokens) + Len(rule.next_classes)

\* _cost_of: rules requiring more tokens cost less.
_cost_of(rule) == Log2Table[_num_tokens_of(rule)]

\* _transliteration_rule_of, with the cost derived.  An absent (None) context
\* list is the empty sequence: the code only tests these lists for truth.
TransliterationRule(production, prev_classes, prev_tokens, rtokens, next_tokens, next_classes) ==
    LET r == [production |-> production, prev_classes |-> prev_classes,
              prev_tokens |-> prev_tokens, tokens |-> rtokens,
              next_tokens |-> next_tokens, next_classes |-> next_classes]
    IN [production |-> production, prev_classes |-> prev_classes,
        prev_tokens |-> prev_tokens, tokens |-> rtokens,
        next_tokens |-> next_tokens, next_classes |-> next_classes,
        cost |-> _cost_of(r)]

OnMatchRule(prev_classes, next_classes, production) ==
    [prev_classes |-> prev_classes, next_classes |-> next_classes,
     production |-> production]

WhitespaceRules(default, token_class, consolidate) ==
    [default |-> default, token_class |-> token_class,
     consolidate |-> consolidate]

\* _tokens_by_class_of: the tokens of each class.
_tokens_by_class_of(tks) ==
    [c \in UNION {tks[t] : t \in DOMAIN tks} |-> {t \in DOMAIN tks : c \in tks[t]}]

-----------------------------------------------------------------------------
(* DirectedGraph.                                                          *)

DirectedGraph == [node |-> <<>>, edge |-> <<>>, edge_list |-> <<>>]

\* add_node: appends the node data; the new key is the old number of nodes.
add_node(g, node_data) == [g EXCEPT !.node = Append(@, node_data)]

\* add_edge on valid arguments: stores the data at edge[head][tail].
add_edge(g, head, tail, edge_data) ==
    [g EXCEPT !.edge = Put(@, head, Put(Get(@, head), tail, edge_data)),
              !.edge_list = Append(@, <<head, tail>>)]

\* graph.node[key][field] = value
SetNodeField(g, key, field, value) ==
    [g EXCEPT !.node[key + 1] = Put(@, field, value)]

\* graph.edge[head][tail][field] = value
SetEdgeField(g, head, tail, field, value) ==
    [g EXCEPT !.edge[head][tail] = Put(@, field, value)]

-----------------------------------------------------------------------------
(* _graph_from: the parsing graph of a rule list.                          *)

RulesKey == <<"__rules__">>      \* the key "__rules__" of ordered_children

\* graph.add_node returns the key of the node it adds.
NextNodeKey(g) == Len(g.node)

\* The edge's constraints: the rule's non-empty context lists.
ConstraintsOf(rule) ==
    [k \in {c \in {"prev_classes", "prev_tokens", "next_tokens", "next_classes"} :
                rule[c] # <<>>} |-> rule[k]]

\* A variant of the loop that never reuses a token child of the parent.
RECURSIVE token_path_without_reuse(_, _, _, _)
token_path_without_reuse(g, rule, i, parent_key) ==
    IF i > Len(rule.tokens) THEN [graph |-> g, parent_key |-> parent_key]
    ELSE
      LET token == rule.tokens[i]
          token_node_key == NextNodeKey(g)
          g1 == add_edge(add_node(g, [type |-> "token", token |-> token]),
                         parent_key, token_node_key,
                         [token |-> token, cost |-> rule.cost])
      IN token_path_without_reuse(g1, rule, i + 1, token_node_key)

\* One pass of the loop "for token in rule.tokens", from the i-th token on:
\* reuses the token child of the parent or creates it, lowers the cost of
\* the edge to the rule's cost, and descends.
RECURSIVE TokenPath(_, _, _, _)
TokenPath(g, rule, i, parent_key) ==
    IF i > Len(rule.tokens) THEN [graph |-> g, parent_key |-> parent_key]
    ELSE
      LET token == rule.tokens[i]
          parent_node == g.node[parent_key + 1]
          token_children == Get(parent_node, "token_children")
          is_new == token \notin DOMAIN token_children
          token_node_key == IF is_new THEN NextNodeKey(g) ELSE token_children[token]
          g1 == IF is_new
                THEN SetNodeField(
                         add_edge(add_node(g, [type |-> "token", token |-> token]),
                                  parent_key, token_node_key, [token |-> token]),
                         parent_key, "token_children",
                         Put(token_children, token, token_node_key))
                ELSE g
          curr_edge == g1.edge[parent_key][token_node_key]
          curr_cost == IF "cost" \in DOMAIN curr_edge THEN curr_edge["cost"]
                       ELSE DefaultCost
          g2 == IF curr_cost > rule.cost
                THEN SetEdgeField(g1, parent_key, token_node_key, "cost", rule.cost)
                ELSE g1
      IN TokenPath(g2, rule, i + 1, token_node_key)

\* The cost of the rule of a rule node: rules[graph.node[x]["rule_key"]].cost
RuleCostKey(g, rls) ==
    [x \in {k \in 0..(Len(g.node) - 1) : "rule_key" \in DOMAIN g.node[k + 1]} |->
        rls[g.node[x + 1]["rule_key"] + 1].cost]

\* The body of the loop "for rule_key, rule in enumerate(rules)".
AddRule(g, rls, rule_key) ==
    LET rule == rls[rule_key + 1]
        path == TokenPath(g, rule, 1, 0)
        parent_key == path.parent_key
        rule_node_key == NextNodeKey(path.graph)
        g1 == add_node(path.graph,
                       [type |-> "rule", rule_key |-> rule_key, accepting |-> TRUE])
        rule_children == Append(Get(g1.node[parent_key + 1], "rule_children"),
                                rule_node_key)
        g2 == SetNodeField(g1, parent_key, "rule_children",
                           Sorted(rule_children, RuleCostKey(g1, rls)))
        has_constraints == DOMAIN ConstraintsOf(rule) # {}
        edge_to_rule == IF has_constraints
                        THEN [cost |-> rule.cost, constraints |-> ConstraintsOf(rule)]
                        ELSE [cost |-> rule.cost]
    IN add_edge(g2, parent_key, rule_node_key, edge_to_rule)

RECURSIVE AddRules(_, _, _)
AddRules(g, rls, rule_key) ==
    IF rule_key >= Len(rls) THEN g
    ELSE AddRules(AddRule(g, rls, rule_key), rls, rule_key + 1)

\* The sort key of the second loop: graph.edge[node_key][key]["cost"], a
\* KeyError where a token edge was never given a cost.
EdgeCostKey(g, node_key) ==
    [x \in DOMAIN Get(g.edge, node_key) |->
        IF "cost" \in DOMAIN g.edge[node_key][x] THEN g.edge[node_key][x]["cost"]
        ELSE DefaultCost]

EdgeCostMissing(g) ==
    \E h \in DOMAIN g.edge : \E t \in DOMAIN g.edge[h] :
        /\ "token" \in DOMAIN g.edge[h][t]
        /\ "cost" \notin DOMAIN g.edge[h][t]

\* A variant of the body that lists the rule children before the token child.
order_children_rules_first(g, rls, node_key) ==
    LET node == g.node[node_key + 1]
        rule_children_keys == Get(node, "rule_children")
        token_children == Get(node, "token_children")
        ordered_children ==
            [k \in (IF rule_children_keys # <<>> THEN {RulesKey} ELSE {})
                       \cup DOMAIN token_children |->
                IF k \in DOMAIN token_children
                THEN Sorted(rule_children_keys \o <<token_children[k]>>,
                            EdgeCostKey(g, node_key))
                ELSE Sorted(rule_children_keys, RuleCostKey(g, rls))]
    IN Put(Pop(Pop(node, "rule_children"), "token_children"),
           "ordered_children", ordered_children)

\* The body of the loop "for node_key, node in enumerate(graph.node)":
\* replaces rule_children and token_children by ordered_children.
OrderChildren(g, rls, node_key) ==
    LET node == g.node[node_key + 1]
        rule_children_keys == Get(node, "rule_children")
        token_children == Get(node, "token_children")
        with_rules == IF rule_children_keys # <<>>
                      THEN Put(<<>>, RulesKey,
                               Sorted(rule_children_keys, RuleCostKey(g, rls)))
                      ELSE <<>>
        ordered_children ==
            [k \in DOMAIN with_rules \cup DOMAIN token_children |->
                IF k \in DOMAIN token_children
                THEN Sorted(<<token_children[k]>> \o rule_children_keys,
                            EdgeCostKey(g, node_key))
                ELSE with_rules[k]]
    IN Put(Pop(Pop(node, "rule_children"), "token_children"),
           "ordered_children", ordered_children)

_graph_from(rls) ==
    LET start == add_node(DirectedGraph, [type |-> "Start"])
        built == AddRules(start, rls, 0)
    IN [built EXCEPT !.node = [k \in DOMAIN built.node |->
                                  OrderChildren(built, rls, k - 1)]]

-----------------------------------------------------------------------------
(* The matcher: _match_tokens, _match_constraints, match_at.               *)

\* tokens[i] of a Python list: a negative index counts from the end, an
\* index outside the list is an IndexError.
InList(tks, i) == -Len(tks) <= i /\ i < Len(tks)

ListAt(tks, i) == IF i >= 0 THEN tks[i + 1] ELSE tks[Len(tks) + i + 1]

\* The loop of _match_tokens from the i-th (0-based) element of c_value on.
RECURSIVE MatchTokensFrom(_, _, _, _, _, _)
MatchTokensFrom(self, start_i, c_value, tks, by_class, i) ==
    IF i >= Len(c_value) THEN "True"
    ELSE IF ~InList(tks, start_i + i) THEN "IndexError"
    ELSE IF by_class
         THEN IF ListAt(tks, start_i + i) \notin DOMAIN self.tokens THEN "KeyError"
              ELSE IF c_value[i + 1] \notin self.tokens[ListAt(tks, start_i + i)] THEN "False"
              ELSE MatchTokensFrom(self, start_i, c_value, tks, by_class, i + 1)
         ELSE IF ListAt(tks, start_i + i) # c_value[i + 1] THEN "False"
              ELSE MatchTokensFrom(self, start_i, c_value, tks, by_class, i + 1)

\* _match_tokens: match tokens, with boundary checks.
_match_tokens(self, start_i, c_value, tks, check_prev, check_next, by_class) ==
    IF check_prev /\ start_i < 0 THEN "False"
    ELSE IF check_next /\ start_i + Len(c_value) > Len(tks) THEN "False"
    ELSE MatchTokensFrom(self, start_i, c_value, tks, by_class, 0)

\* The order in which constraints.items() yields the keys _graph_from set.
ConstraintOrder == <<"prev_classes", "prev_tokens", "next_tokens", "next_classes">>

\* One constraint of _match_constraints.  The two constraints on previous
\* tokens read curr_node["rule"], a KeyError on a node without that key.
MatchConstraint(self, constraints, c_type, curr_node, token_i, tks) ==
    LET c_value == constraints[c_type]
    IN CASE c_type = "prev_tokens" ->
              IF "rule" \notin DOMAIN curr_node THEN "KeyError"
              ELSE _match_tokens(self,
                       token_i - Len(curr_node["rule"].tokens) - Len(c_value),
                       c_value, tks, TRUE, FALSE, FALSE)
         [] c_type = "next_tokens" ->
              _match_tokens(self, token_i, c_value, tks, FALSE, TRUE, FALSE)
         [] c_type = "prev_classes" ->
              IF "rule" \notin DOMAIN curr_node THEN "KeyError"
              ELSE _match_tokens(self,
                       token_i - Len(curr_node["rule"].tokens)
                           - Len(Get(constraints, "prev_tokens")) - Len(c_value),
                       c_value, tks, TRUE, FALSE, TRUE)
         [] c_type = "next_classes" ->
              _match_tokens(self, token_i + Len(Get(constraints, "next_tokens")),
                            c_value, tks, FALSE, TRUE, TRUE)

\* The loop "for c_type, c_value in constraints.items()" from the i-th key on.
RECURSIVE MatchConstraintsFrom(_, _, _, _, _, _)
MatchConstraintsFrom(self, constraints, curr_node, token_i, tks, i) ==
    IF i > Len(ConstraintOrder) THEN "True"
    ELSE IF ConstraintOrder[i] \notin DOMAIN constraints
         THEN MatchConstraintsFrom(self, constraints, curr_node, token_i, tks, i + 1)
    ELSE LET m == MatchConstraint(self, constraints, ConstraintOrder[i],
                                  curr_node, token_i, tks)
         IN IF m = "True"
            THEN MatchConstraintsFrom(self, constraints, curr_node, token_i, tks, i + 1)
            ELSE m

\* _match_constraints: called on the edge before a rule, token_i right after
\* the tokens consumed.
_match_constraints(self, target_edge, curr_node, token_i, tks) ==
    LET constraints == Get(target_edge, "constraints")
    IN IF DOMAIN constraints = {} THEN "True"
       ELSE MatchConstraintsFrom(self, constraints, curr_node, token_i, tks, 1)

\* _append_children: pushes the ordered children of the node for the token at
\* token_i, or else its rule leaves, lowest cost on top of the stack.
_append_children(self, tks, stack, node_key, token_i) ==
    LET ordered_children == Get(self.graph.node[node_key + 1], "ordered_children")
        children == Get(ordered_children, ListAt(tks, token_i))
        rules_keys == Get(ordered_children, RulesKey)
        frames(keys) == [k \in 1..Len(keys) |-> <<keys[k], node_key, token_i>>]
    IN IF DOMAIN ordered_children = {} THEN stack
       ELSE IF children # <<>> THEN frames(children) \o stack
       ELSE IF rules_keys # <<>> THEN frames(rules_keys) \o stack
       ELSE stack

\* The loop "while stack" of match_at.
RECURSIVE MatchLoop(_, _, _, _, _)
MatchLoop(self, tks, match_all, stack, matches) ==
    IF stack = <<>>
    THEN IF match_all THEN [status |-> "ok", type |-> "list", keys |-> matches]
         ELSE [status |-> "ok", type |-> "None", keys |-> <<>>]
    ELSE
      LET node_key == stack[1][1]
          parent_key == stack[1][2]
          token_i == stack[1][3]
          rest == Tail(stack)
          curr_node == self.graph.node[node_key + 1]
          incident_edge == self.graph.edge[parent_key][node_key]
          accepting == "accepting" \in DOMAIN curr_node /\ curr_node["accepting"]
          constrained == IF accepting
                         THEN _match_constraints(self, incident_edge, curr_node,
                                                 token_i, tks)
                         ELSE "False"
          next_i == IF token_i < Len(tks) - 1 THEN token_i + 1 ELSE token_i
      IN IF ~(token_i < Len(tks))
         THEN [status |-> "AssertionError", type |-> "None", keys |-> matches]
         ELSE IF constrained \notin {"True", "False"}
         THEN [status |-> constrained, type |-> "None", keys |-> matches]
         ELSE IF constrained = "True"
         THEN IF match_all
              THEN MatchLoop(self, tks, match_all, rest,
                             Append(matches, curr_node["rule_key"]))
              ELSE [status |-> "ok", type |-> "int",
                    keys |-> <<curr_node["rule_key"]>>]
         ELSE MatchLoop(self, tks, match_all,
                        _append_children(self, tks, rest, node_key, next_i), matches)

\* match_at: the key of the least costly rule matching at token_i, or of all
\* rules matching there.  The outcome's keys hold the rule key (type "int"),
\* nothing (type "None") or the list of keys (type "list").
match_at(self, token_i, tks, match_all) ==
    MatchLoop(self, tks, match_all, _append_children(self, tks, <<>>, 0, token_i), <<>>)

-----------------------------------------------------------------------------
(* The tokenizer: _tokenizer_pattern_from and tokenize.                    *)

\* The code point of each character of the model.
Ord == (" " :> 32) @@ ("!" :> 33) @@ ("_" :> 95) @@ ("a" :> 97) @@ ("b" :> 98)

\* x < y for two strings, as Python compares them.
RECURSIVE StrLess(_, _)
StrLess(x, y) ==
    IF y = <<>> THEN FALSE
    ELSE IF x = <<>> THEN TRUE
    ELSE IF Ord[Head(x)] # Ord[Head(y)] THEN Ord[Head(x)] < Ord[Head(y)]
    ELSE StrLess(Tail(x), Tail(y))

\* The sort key (len(x), x) of _tokenizer_pattern_from.
PatternKeyLess(x, y) == Len(x) < Len(y) \/ (Len(x) = Len(y) /\ StrLess(x, y))

\* The pattern without reverse=True: shortest alternative first.
_tokenizer_pattern_ascending(tokenSet) ==
    [i \in 1..Cardinality(tokenSet) |->
        CHOOSE t \in tokenSet :
            Cardinality({u \in tokenSet : PatternKeyLess(u, t)}) = i - 1]

\* _tokenizer_pattern_from: the alternatives of the regular expression,
\* sorted by length and then by token, longest first.  tokenSet holds the
\* keys of a dict, so no two keys are equal.
_tokenizer_pattern_from(tokenSet) ==
    [i \in 1..Cardinality(tokenSet) |->
        CHOOSE t \in tokenSet :
            Cardinality({u \in tokenSet : PatternKeyLess(t, u)}) = i - 1]

\* input.startswith(token, at), at 0-based.
StartsWith(input, token, at) ==
    /\ at + Len(token) <= Len(input)
    /\ \A k \in 1..Len(token) : input[at + k] = token[k]

\* self._tokenizer.match(input, at): the first alternative of the pattern
\* that matches at that position, <<alternative>> or <<>> for no match.
TokenizerMatch(pattern, input, at) ==
    LET hits == {i \in 1..Len(pattern) : StartsWith(input, pattern[i], at)}
    IN IF hits = {} THEN <<>> ELSE <<pattern[Min(hits)]>>

\* is_whitespace of tokenize.
is_whitespace(self, token) == self.whitespace.token_class \in self.tokens[token]

\* The loop without a body: trailing whitespace is kept.
StripNothing(self, tks) == tks

\* The loop "while len(tokens) > 1 and is_whitespace(tokens[-1])".
RECURSIVE StripTrailing(_, _)
StripTrailing(self, tks) ==
    IF Len(tks) > 1 /\ is_whitespace(self, tks[Len(tks)])
    THEN StripTrailing(self, SubSeq(tks, 1, Len(tks) - 1))
    ELSE tks

\* The loop "while match_at < len(input)" of tokenize.  scan records, for
\* every pass of the loop, the position, the match and the position after.
RECURSIVE TokenizeLoop(_, _, _, _, _, _)
TokenizeLoop(self, input, at, tks, prev_whitespace, scan) ==
    IF ~(at < Len(input))
    THEN [status |-> "ok", tokens |-> tks, scan |-> scan]
    ELSE
      LET match == TokenizerMatch(self.tokenizer_pattern, input, at)
      IN IF match # <<>>
         THEN LET token == match[1]
                  end == at + Len(token)
                  step == [at |-> at, match |-> match, end |-> end]
              IN IF is_whitespace(self, token)
                 THEN IF prev_whitespace /\ self.whitespace.consolidate
                      THEN TokenizeLoop(self, input, end, tks, prev_whitespace,
                                        Append(scan, step))
                      ELSE TokenizeLoop(self, input, end, Append(tks, token), TRUE,
                                        Append(scan, step))
                 ELSE TokenizeLoop(self, input, end, Append(tks, token), FALSE,
                                   Append(scan, step))
         ELSE IF ~self.ignore_errors
              THEN [status |-> "UnrecognizableInputTokenException",
                    tokens |-> tks, scan |-> scan]
              ELSE TokenizeLoop(self, input, at + 1, tks, prev_whitespace,
                                Append(scan, [at |-> at, match |-> <<>>,
                                              end |-> at + 1]))

\* tokenize without its final "tokens.append(self.whitespace.default)".
tokenize_without_final(self, input) ==
    LET scanned == TokenizeLoop(self, input, 0, <<self.whitespace.default>>,
                                TRUE, <<>>)
        stripped == IF self.whitespace.consolidate
                    THEN StripTrailing(self, scanned.tokens)
                    ELSE scanned.tokens
    IN IF scanned.status # "ok" THEN scanned
       ELSE [status |-> "ok", tokens |-> stripped, scan |-> scanned.scan]

\* tokenize: the tokens of the input, between two default whitespace tokens.
tokenize(self, input) ==
    LET scanned == TokenizeLoop(self, input, 0, <<self.whitespace.default>>,
                                TRUE, <<>>)
        stripped == IF self.whitespace.consolidate
                    THEN StripTrailing(self, scanned.tokens)
                    ELSE scanned.tokens
    IN IF scanned.status # "ok" THEN scanned
       ELSE [status |-> "ok", tokens |-> Append(stripped, self.whitespace.default),
             scan |-> scanned.scan]

-----------------------------------------------------------------------------
(* The onmatch rules: _onmatch_rules_lookup and their use by transliterate. *)

\* The lookup keyed by the first previous class instead of the last.
LookupListByFirst(tkns, omr, curr, prev) ==
    LET applies(rule_i) ==
            /\ omr[rule_i + 1].next_classes[1] \in tkns[curr]
            /\ omr[rule_i + 1].prev_classes[1] \in tkns[prev]
    IN SelectSeq([i \in 1..Len(omr) |-> i - 1], applies)

\* The indexes, in order, of the onmatch rules the loops of
\* _onmatch_rules_lookup append under [curr][prev]: those whose first next
\* class is a class of curr and whose last previous class is a class of prev.
LookupList(tkns, omr, curr, prev) ==
    LET applies(rule_i) ==
            /\ omr[rule_i + 1].next_classes[1] \in tkns[curr]
            /\ omr[rule_i + 1].prev_classes[Len(omr[rule_i + 1].prev_classes)]
                   \in tkns[prev]
    IN SelectSeq([i \in 1..Len(omr) |-> i - 1], applies)

\* _onmatch_rules_lookup: current token -> previous token -> indexes of the
\* onmatch rules to try; only the keys with a non-empty list exist.
_onmatch_rules_lookup(tkns, omr) ==
    [curr \in {c \in DOMAIN tkns :
                  \E q \in DOMAIN tkns : LookupList(tkns, omr, c, q) # <<>>} |->
        [prev \in {q \in DOMAIN tkns : LookupList(tkns, omr, curr, q) # <<>>} |->
            LookupList(tkns, omr, curr, prev)]]

\* The loop "for onmatch_i in curr_match_rules" of transliterate, from the
\* k-th candidate on: <<onmatch_i>> of the first onmatch rule whose classes
\* match around token_i, or <<>>.
RECURSIVE FirstOnMatch(_, _, _, _, _)
FirstOnMatch(self, curr_match_rules, tks, token_i, k) ==
    IF k > Len(curr_match_rules) THEN <<>>
    ELSE LET onmatch_i == curr_match_rules[k]
             onmatch == self.onmatch_rules[onmatch_i + 1]
         IN IF /\ _match_tokens(self, token_i - Len(onmatch.prev_classes),
                                onmatch.prev_classes, tks, TRUE, FALSE, TRUE) = "True"
               /\ _match_tokens(self, token_i, onmatch.next_classes, tks,
                                FALSE, TRUE, TRUE) = "True"
            THEN <<onmatch_i>>
            ELSE FirstOnMatch(self, curr_match_rules, tks, token_i, k + 1)

\* The onmatch rule transliterate applies before the rule matched at token_i.
OnMatchAt(self, tks, token_i) ==
    IF self.onmatch_rules = <<>> THEN <<>>
    ELSE LET prev_t == ListAt(tks, token_i - 1)
             curr_t == ListAt(tks, token_i)
             curr_t_rules == Get(self.onmatch_rules_lookup, curr_t)
             curr_match_rules == Get(curr_t_rules, prev_t)
         IN FirstOnMatch(self, curr_match_rules, tks, token_i, 1)

-----------------------------------------------------------------------------
(* transliterate.                                                          *)

\* The loop of transliterate moving two tokens ahead where no rule matches.
RECURSIVE TransliterateLoopSkipTwo(_, _, _, _, _, _)
TransliterateLoopSkipTwo(self, tks, token_i, output, keys, applied) ==
    LET outcome(status) ==
            [status |-> status, output |-> output, rule_keys |-> keys,
             input_tokens |-> <<tks>>, applied |-> applied]
    IN IF ~(token_i < Len(tks) - 1) THEN outcome("ok")
       ELSE
         LET found == match_at(self, token_i, tks, FALSE)
         IN IF found.status # "ok" THEN outcome(found.status)
            ELSE IF found.type = "None"
            THEN IF self.ignore_errors
                 THEN TransliterateLoopSkipTwo(self, tks, token_i + 2, output,
                                               keys, applied)
                 ELSE outcome("NoMatchingTransliterationRuleException")
            ELSE
              LET rule_key == found.keys[1]
                  rule == self.rules[rule_key + 1]
                  onmatch == OnMatchAt(self, tks, token_i)
                  inserted == IF onmatch = <<>> THEN ""
                              ELSE self.onmatch_rules[onmatch[1] + 1].production
              IN TransliterateLoopSkipTwo(self, tks, token_i + Len(rule.tokens),
                     output \o inserted \o rule.production,
                     Append(keys, rule_key),
                     Append(applied, [token_i |-> token_i, rule_key |-> rule_key,
                                      onmatch |-> onmatch]))

\* The loop "while token_i < len(tokens) - 1" of transliterate.  applied
\* records, for every rule applied, the position, the rule's key and the
\* onmatch rule applied before it.
RECURSIVE TransliterateLoop(_, _, _, _, _, _)
TransliterateLoop(self, tks, token_i, output, keys, applied) ==
    LET outcome(status) ==
            [status |-> status, output |-> output, rule_keys |-> keys,
             input_tokens |-> <<tks>>, applied |-> applied]
    IN IF ~(token_i < Len(tks) - 1) THEN outcome("ok")
       ELSE
         LET found == match_at(self, token_i, tks, FALSE)
         IN IF found.status # "ok" THEN outcome(found.status)
            ELSE IF found.type = "None"
            THEN IF self.ignore_errors
                 THEN TransliterateLoop(self, tks, token_i + 1, output, keys, applied)
                 ELSE outcome("NoMatchingTransliterationRuleException")
            ELSE
              LET rule_key == found.keys[1]
                  rule == self.rules[rule_key + 1]
                  onmatch == OnMatchAt(self, tks, token_i)
                  inserted == IF onmatch = <<>> THEN ""
                              ELSE self.onmatch_rules[onmatch[1] + 1].production
              IN TransliterateLoop(self, tks, token_i + Len(rule.tokens),
                     output \o inserted \o rule.production,
                     Append(keys, rule_key),
                     Append(applied, [token_i |-> token_i, rule_key |-> rule_key,
                                      onmatch |-> onmatch]))

\* transliterate without "self._rule_keys = []": the keys are added to
\* those of the call before.
transliterate_keeping_keys(self, input) ==
    LET tokenized == tokenize(self, input)
    IN IF tokenized.status # "ok"
       THEN [status |-> tokenized.status, output |-> "",
             rule_keys |-> self.rule_keys, input_tokens |-> self.input_tokens,
             applied |-> <<>>]
       ELSE TransliterateLoop(self, tokenized.tokens, 1, "", self.rule_keys, <<>>)

\* transliterate: the outcome, with the values the call leaves in
\* self._rule_keys and self._input_tokens.  A failing tokenize leaves both
\* as they were.
transliterate(self, input) ==
    LET tokenized == tokenize(self, input)
    IN IF tokenized.status # "ok"
       THEN [status |-> tokenized.status, output |-> "",
             rule_keys |-> self.rule_keys, input_tokens |-> self.input_tokens,
             applied |-> <<>>]
       ELSE TransliterateLoop(self, tokenized.tokens, 1, "", <<>>, <<>>)

-----------------------------------------------------------------------------
(* check_for_ambiguity.                                                    *)

\* tokens_by_class[c] of the defaultdict(set) built by _tokens_by_class_of.
TokensOfClass(self, c) ==
    IF c \in DOMAIN self.tokens_by_class THEN self.tokens_by_class[c] ELSE {}

\* _count_of_prev
_count_of_prev(rule) == Len(rule.prev_classes) + Len(rule.prev_tokens)

\* _count_of_curr_and_next
_count_of_curr_and_next(rule) ==
    Len(rule.tokens) + Len(rule.next_tokens) + Len(rule.next_classes)

\* _tokens_possible: the sets of tokens a rule can match, position by
\* position: previous classes, previous tokens, tokens, next tokens, next
\* classes.
_tokens_possible(self, rule) ==
    [k \in 1..Len(rule.prev_classes) |-> TokensOfClass(self, rule.prev_classes[k])]
    \o [k \in 1..Len(rule.prev_tokens) |-> {rule.prev_tokens[k]}]
    \o [k \in 1..Len(rule.tokens) |-> {rule.tokens[k]}]
    \o [k \in 1..Len(rule.next_tokens) |-> {rule.next_tokens[k]}]
    \o [k \in 1..Len(rule.next_classes) |-> TokensOfClass(self, rule.next_classes[k])]

global_max_prev(self) == Max({_count_of_prev(self.rules[i]) : i \in DOMAIN self.rules})

width(self) ==
    global_max_prev(self)
        + Max({_count_of_curr_and_next(self.rules[i]) : i \in DOMAIN self.rules})

\* The matrix of the rules: each row is a rule's sets of possible tokens,
\* aligned on the first matched token and padded with the set of all tokens.
matrix(self) ==
    LET all_tokens == DOMAIN self.tokens
    IN [i \in DOMAIN self.rules |->
          LET rule == self.rules[i]
              padded == [k \in 1..(global_max_prev(self) - _count_of_prev(rule)) |->
                            all_tokens] \o _tokens_possible(self, rule)
          IN padded \o [k \in 1..(width(self) - Len(padded)) |-> all_tokens]]

\* full_intersection of the rows of two rules (0-based keys): <<>> (None) if
\* the two rows are disjoint at some position.
full_intersection(self, m, i, j) ==
    IF \E k \in 1..width(self) : m[i + 1][k] \cap m[j + 1][k] = {} THEN <<>>
    ELSE [k \in 1..width(self) |-> m[i + 1][k] \cap m[j + 1][k]]

\* covered_by: the intersection is covered by the row.
covered_by(intersection, row) ==
    \A k \in 1..Len(intersection) : intersection[k] \ row[k] = {}

\* covered_by_less_costly: some rule other than the two, which is not more
\* costly than the first of them, covers their intersection.
covered_by_less_costly(self, m, i_index, j_index, intersection) ==
    \E r_i \in 0..(Len(self.rules) - 1) :
        /\ r_i \notin {i_index, j_index}
        /\ ~(self.rules[r_i + 1].cost > self.rules[i_index + 1].cost)
        /\ covered_by(intersection, m[r_i + 1])

\* itertools.groupby(enumerate(rules), key=cost): the maximal runs of
\* consecutive rules of equal cost, as sequences of rule keys.
RECURSIVE GroupsFrom(_, _, _)
GroupsFrom(rls, i, groups) ==
    IF i > Len(rls) THEN groups
    ELSE IF groups # <<>>
            /\ rls[groups[Len(groups)][1] + 1].cost = rls[i].cost
         THEN GroupsFrom(rls, i + 1,
                  [groups EXCEPT ![Len(groups)] = Append(@, i - 1)])
         ELSE GroupsFrom(rls, i + 1, Append(groups, <<i - 1>>))

\* The loop "for j in range(i + 1, len(group))"; i and j are 0-based.  A
\* pair without intersection ends the loop (break).  found holds the
\* overlapping pairs met so far and the pairs reported as ambiguous.
RECURSIVE PairsWith(_, _, _, _, _, _)
PairsWith(self, m, group, i, j, found) ==
    IF j >= Len(group) THEN found
    ELSE LET i_index == group[i + 1]
             j_index == group[j + 1]
             intersection == full_intersection(self, m, i_index, j_index)
         IN IF intersection = <<>> THEN found
            ELSE PairsWith(self, m, group, i, j + 1,
                     [overlaps |-> Append(found.overlaps, <<i_index, j_index>>),
                      reports |->
                          IF covered_by_less_costly(self, m, i_index, j_index,
                                                    intersection)
                          THEN found.reports
                          ELSE Append(found.reports, <<i_index, j_index>>)])

\* The loop "for i in range(len(group) - 1)".
RECURSIVE PairsOfGroup(_, _, _, _, _)
PairsOfGroup(self, m, group, i, found) ==
    IF i >= Len(group) - 1 THEN found
    ELSE PairsOfGroup(self, m, group, i + 1,
                      PairsWith(self, m, group, i, i + 1, found))

\* The loop over the groups; a group of one rule is skipped.
RECURSIVE PairsOfGroups(_, _, _, _, _)
PairsOfGroups(self, m, groups, g, found) ==
    IF g > Len(groups) THEN found
    ELSE PairsOfGroups(self, m, groups, g + 1,
             IF Len(groups[g]) = 1 THEN found
             ELSE PairsOfGroup(self, m, groups[g], 0, found))

\* check_for_ambiguity: raises if some pair was reported.  The outcome keeps
\* the overlapping pairs the loops met and the pairs they reported.
check_for_ambiguity(self) ==
    IF self.rules = <<>>
    THEN [status |-> "ok", overlaps |-> <<>>, reports |-> <<>>]
    ELSE LET found == PairsOfGroups(self, matrix(self), GroupsFrom(self.rules, 1, <<>>),
                                    1, [overlaps |-> <<>>, reports |-> <<>>])
         IN [status |-> IF found.reports # <<>>
                        THEN "AmbiguousTransliterationRulesException" ELSE "ok",
             overlaps |-> found.overlaps, reports |-> found.reports]

-----------------------------------------------------------------------------
(* pruned_of.                                                              *)

\* Python's "x in s" on two strings: x occurs in s.
StrIn(x, s) ==
    \/ Len(x) = 0
    \/ \E i \in 1..(Len(s) - Len(x) + 1) : SubSeq(s, i, i + Len(x) - 1) = x

\* "production in productions", where productions is a list of strings
\* (type "list", value the list) or one string (type "str", value <<string>>).
InProductions(production, productions) ==
    IF productions.type = "str"
    THEN StrIn(production, productions.value[1])
    ELSE production \in Range(productions.value)

\* The outcome of a check_for_ambiguity that is not asked for.
NotChecked == [status |-> "ok", overlaps |-> <<>>, reports |-> <<>>]

\* GraphTransliterator(tokens, rules, whitespace, onmatch_rules=...,
\* ignore_errors=..., check_ambiguity=...): the outcome of __init__ and the
\* engine it builds.
GraphTransliterator(tkns, rls, wsp, omr, ignore, check) ==
    LET by_class == _tokens_by_class_of(tkns)
        fresh == [tokens |-> tkns, tokens_by_class |-> by_class, rules |-> rls,
                  onmatch_rules |-> omr, whitespace |-> wsp,
                  ignore_errors |-> ignore, check_ambiguity |-> check,
                  onmatch_rules_lookup |-> <<>>, tokenizer_pattern |-> <<>>,
                  graph |-> <<>>, rule_keys |-> <<>>, input_tokens |-> <<>>]
        checked == IF check THEN check_for_ambiguity(fresh) ELSE NotChecked
        built == _graph_from(rls)
    IN IF checked.status # "ok" THEN [status |-> checked.status, engine |-> fresh]
       ELSE [status |-> IF EdgeCostMissing(built) THEN "KeyError" ELSE "ok",
             engine |-> [fresh EXCEPT
                 !.onmatch_rules_lookup =
                     IF omr # <<>> THEN _onmatch_rules_lookup(tkns, omr) ELSE <<>>,
                 !.tokenizer_pattern = _tokenizer_pattern_from(DOMAIN tkns),
                 !.graph = built]]

\* The list of rules with nothing removed.
pruned_rules_unfiltered(self, productions) == self.rules

\* pruned_rules = [_ for _ in self._rules if _.production not in productions]
pruned_rules(self, productions) ==
    LET kept(rule) == ~InProductions(rule.production, productions)
    IN SelectSeq(self.rules, kept)

\* pruned_of: a new engine, built from the rules that are kept and the other
\* arguments of this one.
pruned_of(self, productions) ==
    GraphTransliterator(self.tokens, pruned_rules(self, productions),
                        self.whitespace, self.onmatch_rules,
                        self.ignore_errors, self.check_ambiguity)

-----------------------------------------------------------------------------
(* The engine and its operations.                                          *)

\* The two concurrent callers of transliterate.
Callers == {1, 2}

\* A caller before its call: the local variables of transliterate, and what
\* the call matched.
Idle == [pc |-> "idle", input |-> <<>>, tokens |-> <<>>, token_i |-> 0,
         output |-> "", matched |-> <<>>, status |-> ""]

\* The GraphTransliterator object, as the methods read it.
Self ==
    [tokens |-> tokens, tokens_by_class |-> tokens_by_class, rules |-> rules,
     onmatch_rules |-> onmatch_rules, whitespace |-> whitespace,
     ignore_errors |-> ignore_errors, check_ambiguity |-> check_ambiguity,
     onmatch_rules_lookup |-> onmatch_rules_lookup,
     tokenizer_pattern |-> tokenizer_pattern, graph |-> graph,
     rule_keys |-> rule_keys, input_tokens |-> input_tokens]

\* GraphTransliterator.__init__ on the arguments held in tokens, rules,
\* whitespace, onmatch_rules, ignore_errors and check_ambiguity: checks the
\* rules for ambiguity if asked to, then derives the lookup of the onmatch
\* rules, the tokenizer pattern and the graph.
GraphTransliterator__init__ ==
    /\ constructed = "new"
    /\ LET by_class == _tokens_by_class_of(tokens)
           checked == IF check_ambiguity
                      THEN check_for_ambiguity([Self EXCEPT !.tokens_by_class = by_class])
                      ELSE NotChecked
           built == _graph_from(rules)
       IN /\ tokens_by_class' = by_class
          /\ ret' = checked
          /\ IF checked.status # "ok"
             THEN /\ constructed' = checked.status
                  /\ UNCHANGED <<onmatch_rules_lookup, tokenizer_pattern, graph>>
             ELSE /\ onmatch_rules_lookup' =
                         IF onmatch_rules # <<>>
                         THEN _onmatch_rules_lookup(tokens, onmatch_rules)
                         ELSE <<>>
                  /\ tokenizer_pattern' = _tokenizer_pattern_from(DOMAIN tokens)
                  /\ graph' = built
                  /\ constructed' = IF EdgeCostMissing(built) THEN "KeyError" ELSE "ok"
    /\ op' = "__init__"
    /\ args' = <<>>
    /\ rule_keys' = <<>>
    /\ UNCHANGED <<tokens, rules, onmatch_rules, whitespace, ignore_errors,
                   check_ambiguity, input_tokens>>

\* The construction of a GraphTransliterator.
Construct ==
    /\ GraphTransliterator__init__
    /\ UNCHANGED aux

\* An operation is called on a constructed engine.
Callable == constructed = "ok" /\ op = "__init__"

\* The input strings: over the characters of the declared tokens and one
\* character, "!", which no token declares.
Inputs == SeqsUpTo(UNION {Range(t) : t \in DOMAIN tokens} \cup {"!"}, MaxInput)

\* The token lists: declared tokens between two sentinels.
TokenLists ==
    {<<whitespace.default>> \o s \o <<whitespace.default>> :
        s \in SeqsUpTo(DOMAIN tokens, MaxTokens)}

\* tokenize(input)
Tokenize ==
    /\ Callable
    /\ \E input \in Inputs :
          /\ op' = "tokenize"
          /\ args' = [input |-> input]
          /\ ret' = tokenize(Self, input)
    /\ UNCHANGED <<tokens, tokens_by_class, rules, onmatch_rules, whitespace,
                   ignore_errors, check_ambiguity, onmatch_rules_lookup,
                   tokenizer_pattern, graph, rule_keys, input_tokens, constructed>>
    /\ UNCHANGED aux

\* match_at(token_i, tokens, match_all) on a token list bounded by sentinels.
MatchAt ==
    /\ Callable
    /\ \E tks \in TokenLists, match_all \in BOOLEAN :
         \E token_i \in 0..(Len(tks) - 1) :
          /\ op' = "match_at"
          /\ args' = [token_i |-> token_i, tokens |-> tks, match_all |-> match_all]
          /\ ret' = match_at(Self, token_i, tks, match_all)
    /\ UNCHANGED <<tokens, tokens_by_class, rules, onmatch_rules, whitespace,
                   ignore_errors, check_ambiguity, onmatch_rules_lookup,
                   tokenizer_pattern, graph, rule_keys, input_tokens, constructed>>
    /\ UNCHANGED aux

\* transliterate(input)
Transliterate ==
    /\ Callable
    /\ \E input \in Inputs :
         LET outcome == transliterate(Self, input)
         IN /\ op' = "transliterate"
            /\ args' = [input |-> input]
            /\ ret' = outcome
            /\ rule_keys' = outcome.rule_keys
            /\ input_tokens' = outcome.input_tokens
    /\ UNCHANGED <<tokens, tokens_by_class, rules, onmatch_rules, whitespace,
                   ignore_errors, check_ambiguity, onmatch_rules_lookup,
                   tokenizer_pattern, graph, constructed>>
    /\ UNCHANGED aux

\* The arguments of pruned_of: a production or a list of productions, of
\* the engine's rules or of none ("X").
ProductionArgs ==
    LET names == {rules[k].production : k \in DOMAIN rules} \cup {"X"}
    IN {[type |-> "str", value |-> <<v>>] : v \in names}
         \cup {[type |-> "list", value |-> l] : l \in SeqsUpTo(names, MaxProductions)}

\* pruned_of(productions) filtering self._rules in place and rebuilding
\* self._graph, instead of building a new engine.
PrunedOfInPlace ==
    /\ Callable
    /\ \E productions \in ProductionArgs :
          /\ op' = "pruned_of"
          /\ args' = [productions |-> productions]
          /\ ret' = pruned_of(Self, productions)
          /\ rules' = pruned_rules(Self, productions)
          /\ graph' = _graph_from(pruned_rules(Self, productions))
    /\ UNCHANGED <<tokens, tokens_by_class, onmatch_rules, whitespace,
                   ignore_errors, check_ambiguity, onmatch_rules_lookup,
                   tokenizer_pattern, rule_keys, input_tokens, constructed>>
    /\ UNCHANGED aux

\* pruned_of(productions)
PrunedOf ==
    /\ Callable
    /\ \E productions \in ProductionArgs :
          /\ op' = "pruned_of"
          /\ args' = [productions |-> productions]
          /\ ret' = pruned_of(Self, productions)
    /\ UNCHANGED <<tokens, tokens_by_class, rules, onmatch_rules, whitespace,
                   ignore_errors, check_ambiguity, onmatch_rules_lookup,
                   tokenizer_pattern, graph, rule_keys, input_tokens, constructed>>
    /\ UNCHANGED aux

\* A further operation is called on a constructed engine.
CallableAgain == constructed = "ok" /\ op # "new"

\* The input strings of the repeated calls.
RepeatInputs == {input \in Inputs : Len(input) <= MaxRepeatInput}

\* tokenize(input), after any calls
TokenizeAgain ==
    /\ CallableAgain
    /\ \E input \in RepeatInputs :
          /\ op' = "tokenize"
          /\ args' = [input |-> input]
          /\ ret' = tokenize(Self, input)
    /\ UNCHANGED <<tokens, tokens_by_class, rules, onmatch_rules, whitespace,
                   ignore_errors, check_ambiguity, onmatch_rules_lookup,
                   tokenizer_pattern, graph, rule_keys, input_tokens, constructed>>
    /\ UNCHANGED aux

\* match_at(token_i, last_input_tokens, match_all), after any calls
MatchAtAgain ==
    /\ CallableAgain
    /\ input_tokens # <<>>
    /\ \E tks \in {input_tokens[1]}, match_all \in BOOLEAN :
         \E token_i \in 0..(Len(tks) - 1) :
          /\ op' = "match_at"
          /\ args' = [token_i |-> token_i, tokens |-> tks, match_all |-> match_all]
          /\ ret' = match_at(Self, token_i, tks, match_all)
    /\ UNCHANGED <<tokens, tokens_by_class, rules, onmatch_rules, whitespace,
                   ignore_errors, check_ambiguity, onmatch_rules_lookup,
                   tokenizer_pattern, graph, rule_keys, input_tokens, constructed>>
    /\ UNCHANGED aux

\* transliterate(input), after any calls.  One call of a behaviour, any of
\* them, is remembered in history with its outcome; between tells whether
\* another input was transliterated since.
TransliterateAgain ==
    /\ CallableAgain
    /\ \E input \in RepeatInputs :
         LET outcome == transliterate(Self, input)
         IN /\ op' = "transliterate"
            /\ args' = [input |-> input]
            /\ ret' = outcome
            /\ rule_keys' = outcome.rule_keys
            /\ input_tokens' = outcome.input_tokens
            /\ history' \in
                  IF history = <<>>
                  THEN {<<>>, <<[input |-> input, outcome |-> outcome,
                                 between |-> FALSE]>>}
                  ELSE {<<[history[1] EXCEPT
                             !.between = @ \/ input # history[1].input]>>}
    /\ UNCHANGED <<tokens, tokens_by_class, rules, onmatch_rules, whitespace,
                   ignore_errors, check_ambiguity, onmatch_rules_lookup,
                   tokenizer_pattern, graph, constructed>>
    /\ UNCHANGED <<threads, visited>>

\* The tokens the loop of a call reads: the call's local variable tokens.
\* Here: the tokens saved on the engine.
TokensOfCallShared(self, call) == self.input_tokens[1]

\* The tokens the loop of a call reads: the call's local variable tokens.
TokensOfCall(self, call) == call.tokens

\* One pass of the loop of transliterate in a call: the call's local
\* variables after it, and the rule key it appends to self._rule_keys, if any.
TransliterateStep(self, call) ==
    LET tks == TokensOfCall(self, call)
        found == match_at(self, call.token_i, tks, FALSE)
    IN IF found.status # "ok"
       THEN [call |-> [call EXCEPT !.pc = "done", !.status = found.status],
             appended |-> <<>>]
       ELSE IF found.type = "None"
       THEN IF self.ignore_errors
            THEN [call |-> [call EXCEPT !.token_i = @ + 1], appended |-> <<>>]
            ELSE [call |-> [call EXCEPT !.pc = "done",
                     !.status = "NoMatchingTransliterationRuleException"],
                  appended |-> <<>>]
       ELSE LET rule_key == found.keys[1]
                rule == self.rules[rule_key + 1]
                onmatch == OnMatchAt(self, tks, call.token_i)
                inserted == IF onmatch = <<>> THEN ""
                            ELSE self.onmatch_rules[onmatch[1] + 1].production
            IN [call |-> [call EXCEPT
                            !.token_i = @ + Len(rule.tokens),
                            !.output = @ \o inserted \o rule.production,
                            !.matched = Append(@, rule_key)],
                appended |-> <<rule_key>>]

\* The input strings of the concurrent calls.
CallInputs == {input \in Inputs : Len(input) <= MaxCallInput}

\* "tokens = self.tokenize(input)" of a caller's transliterate(input)
CallTokenize ==
    /\ constructed = "ok"
    /\ \E t \in Callers, input \in CallInputs :
          /\ threads[t].pc = "idle"
          /\ LET tokenized == tokenize(Self, input)
             IN threads' = [threads EXCEPT ![t] =
                   IF tokenized.status # "ok"
                   THEN [@ EXCEPT !.pc = "done", !.input = input,
                                  !.status = tokenized.status]
                   ELSE [@ EXCEPT !.pc = "tokenized", !.input = input,
                                  !.tokens = tokenized.tokens]]
    /\ UNCHANGED <<tokens, tokens_by_class, rules, onmatch_rules, whitespace,
                   ignore_errors, check_ambiguity, onmatch_rules_lookup,
                   tokenizer_pattern, graph, rule_keys, input_tokens, constructed,
                   op, args, ret, history, visited>>

\* "self._input_tokens = tokens" of a caller
CallSaveTokens ==
    /\ \E t \in Callers :
          /\ threads[t].pc = "tokenized"
          /\ input_tokens' = <<threads[t].tokens>>
          /\ threads' = [threads EXCEPT ![t].pc = "saved"]
    /\ UNCHANGED <<tokens, tokens_by_class, rules, onmatch_rules, whitespace,
                   ignore_errors, check_ambiguity, onmatch_rules_lookup,
                   tokenizer_pattern, graph, rule_keys, constructed,
                   op, args, ret, history, visited>>

\* "self._rule_keys = []; output = ''; token_i = 1" of a caller
CallResetKeys ==
    /\ \E t \in Callers :
          /\ threads[t].pc = "saved"
          /\ rule_keys' = <<>>
          /\ threads' = [threads EXCEPT ![t].pc = "loop", ![t].token_i = 1,
                                        ![t].output = ""]
    /\ UNCHANGED <<tokens, tokens_by_class, rules, onmatch_rules, whitespace,
                   ignore_errors, check_ambiguity, onmatch_rules_lookup,
                   tokenizer_pattern, graph, input_tokens, constructed,
                   op, args, ret, history, visited>>

\* One pass of the loop of a caller, or its "return output".
CallStep ==
    /\ \E t \in Callers :
          /\ threads[t].pc = "loop"
          /\ IF threads[t].token_i < Len(TokensOfCall(Self, threads[t])) - 1
             THEN LET step == TransliterateStep(Self, threads[t])
                  IN /\ threads' = [threads EXCEPT ![t] = step.call]
                     /\ rule_keys' = rule_keys \o step.appended
             ELSE /\ threads' = [threads EXCEPT ![t].pc = "done",
                                                ![t].status = "ok"]
                  /\ UNCHANGED rule_keys
    /\ UNCHANGED <<tokens, tokens_by_class, rules, onmatch_rules, whitespace,
                   ignore_errors, check_ambiguity, onmatch_rules_lookup,
                   tokenizer_pattern, graph, input_tokens, constructed,
                   op, args, ret, history, visited>>

-----------------------------------------------------------------------------
(* CoverageTransliterator: the visit-logging graph and onmatch rules.      *)

\* The visited sets of the VisitLoggingList of the nodes, of the
\* VisitLoggingDict of the heads, of the VisitLoggingDicts of the tails (as
\* pairs of head and tail) and of the VisitLoggingList of the onmatch rules,
\* as their constructors leave them.
NoVisits == [node |-> {}, head |-> {}, edge |-> {}, onmatch |-> {}]

\* graph_node[node_key] on the VisitLoggingList
VisitNode(vis, node_key) == [vis EXCEPT !.node = @ \cup {node_key}]

\* graph_edge[head][tail] on the VisitLoggingDicts
VisitEdge(vis, head, tail) == [vis EXCEPT !.head = @ \cup {head}, !.edge = @ \cup {<<head, tail>>}]

\* The loop "while stack" of match_at(token_i, tokens) on the visit-logging
\* graph: the visited sets it leaves.
RECURSIVE VisitLoggingMatchLoop(_, _, _, _)
VisitLoggingMatchLoop(self, tks, stack, vis) ==
    IF stack = <<>> THEN vis
    ELSE
      LET node_key == stack[1][1]
          parent_key == stack[1][2]
          token_i == stack[1][3]
          rest == Tail(stack)
          curr_node == self.graph.node[node_key + 1]
          incident_edge == self.graph.edge[parent_key][node_key]
          seen == VisitEdge(VisitNode(vis, node_key), parent_key, node_key)
          accepting == "accepting" \in DOMAIN curr_node /\ curr_node["accepting"]
          constrained == IF accepting
                         THEN _match_constraints(self, incident_edge, curr_node,
                                                 token_i, tks)
                         ELSE "False"
          next_i == IF token_i < Len(tks) - 1 THEN token_i + 1 ELSE token_i
      IN IF ~(token_i < Len(tks)) THEN vis
         ELSE IF constrained # "False" THEN seen
         ELSE VisitLoggingMatchLoop(self, tks,
                  _append_children(self, tks, rest, node_key, next_i), seen)

\* The visited sets match_at(token_i, tokens) leaves: _append_children(0,
\* token_i) reads the root, the loop the nodes and edges it pops.
VisitLoggingMatchAt(self, token_i, tks, vis) ==
    VisitLoggingMatchLoop(self, tks, _append_children(self, tks, <<>>, 0, token_i), VisitNode(vis, 0))

\* The onmatch rules read by "onmatch = self._onmatch_rules[onmatch_i]" at
\* token_i: the candidates up to the first whose classes match.
OnMatchVisits(self, tks, token_i) ==
    IF self.onmatch_rules = <<>> THEN {}
    ELSE LET prev_t == ListAt(tks, token_i - 1)
             curr_t == ListAt(tks, token_i)
             curr_t_rules == Get(self.onmatch_rules_lookup, curr_t)
             curr_match_rules == Get(curr_t_rules, prev_t)
             first == FirstOnMatch(self, curr_match_rules, tks, token_i, 1)
         IN {curr_match_rules[k] : k \in
                {k \in DOMAIN curr_match_rules :
                    first = <<>> \/ \A j \in 1..(k - 1) : curr_match_rules[j] # first[1]}}

\* The loop of transliterate on a CoverageTransliterator: the visited sets
\* it leaves.
RECURSIVE VisitLoggingLoop(_, _, _, _)
VisitLoggingLoop(self, tks, token_i, vis) ==
    IF ~(token_i < Len(tks) - 1) THEN vis
    ELSE
      LET found == match_at(self, token_i, tks, FALSE)
          seen == VisitLoggingMatchAt(self, token_i, tks, vis)
      IN IF found.status # "ok" THEN seen
         ELSE IF found.type = "None"
         THEN IF self.ignore_errors
              THEN VisitLoggingLoop(self, tks, token_i + 1, seen)
              ELSE seen
         ELSE VisitLoggingLoop(self, tks,
                  token_i + Len(self.rules[found.keys[1] + 1].tokens),
                  [seen EXCEPT !.onmatch = @ \cup OnMatchVisits(self, tks, token_i)])

\* The visited sets transliterate(input) leaves on a CoverageTransliterator.
VisitLoggingTransliterate(self, input, vis) ==
    LET tokenized == tokenize(self, input)
    IN IF tokenized.status # "ok" THEN vis
       ELSE VisitLoggingLoop(self, tokenized.tokens, 1, vis)

\* CoverageTransliterator.clear_visited
clear_visited(self, vis) ==
    [node |-> {}, head |-> {}, edge |-> {},
     onmatch |-> IF self.onmatch_rules # <<>> THEN {} ELSE vis.onmatch]

\* VisitLoggingDirectedGraph.check_coverage
graph_check_coverage(self, vis, raise_exception) ==
    LET missed_nodes == {node_id \in 0..(Len(self.graph.node) - 1) : node_id \notin vis.node}
        missed_edges == {e \in UNION {{<<head, tail>> : tail \in DOMAIN self.graph.edge[head]} : head \in DOMAIN self.graph.edge} : e \notin vis.edge}
        errors == missed_nodes # {} \/ missed_edges # {}
    IN IF errors /\ raise_exception
       THEN [status |-> "IncompleteGraphCoverageException", okay |-> FALSE]
       ELSE [status |-> "ok", okay |-> ~errors]

\* CoverageTransliterator.check_onmatchrules_coverage
check_onmatchrules_coverage(self, vis, raise_exception) ==
    LET errors == {i \in 0..(Len(self.onmatch_rules) - 1) : i \notin vis.onmatch}
    IN IF errors # {} /\ raise_exception
       THEN [status |-> "IncompleteOnMatchRulesCoverageException", okay |-> FALSE]
       ELSE [status |-> "ok", okay |-> errors = {}]

\* check_coverage checking the onmatch rules first, then the graph.
check_coverage_onmatch_first(self, vis, raise_exception) ==
    LET covered == check_onmatchrules_coverage(self, vis, raise_exception)
    IN IF covered.status # "ok" \/ ~covered.okay THEN covered
       ELSE graph_check_coverage(self, vis, raise_exception)

\* CoverageTransliterator.check_coverage: the graph first, then, if the
\* graph is covered, the onmatch rules.
check_coverage(self, vis, raise_exception) ==
    LET covered == graph_check_coverage(self, vis, raise_exception)
    IN IF covered.status # "ok" \/ ~covered.okay THEN covered
       ELSE check_onmatchrules_coverage(self, vis, raise_exception)

\* CoverageTransliterator.__init__: GraphTransliterator.__init__, then the
\* graph and the onmatch rules are wrapped, nothing visited.
CoverageTransliterator ==
    /\ GraphTransliterator__init__
    /\ visited' = IF constructed' = "ok" THEN NoVisits ELSE visited
    /\ UNCHANGED <<history, threads>>

\* An operation is called on a constructed CoverageTransliterator.
CoverageCallable == constructed = "ok" /\ op # "new" /\ visited # <<>>

\* The input strings of the calls on a CoverageTransliterator: over the
\* characters of the declared tokens, and one string no token matches.
CoverageInputs == SeqsUpTo(UNION {Range(t) : t \in DOMAIN tokens}, MaxCoverageInput) \cup {<<"!">>}

\* transliterate(input) on a CoverageTransliterator, after any calls
CoverageTransliterate ==
    /\ CoverageCallable
    /\ \E input \in CoverageInputs :
         LET outcome == transliterate(Self, input)
         IN /\ op' = "transliterate"
            /\ args' = [input |-> input]
            /\ ret' = outcome
            /\ rule_keys' = outcome.rule_keys
            /\ input_tokens' = outcome.input_tokens
            /\ visited' = VisitLoggingTransliterate(Self, input, visited)
    /\ UNCHANGED <<tokens, tokens_by_class, rules, onmatch_rules, whitespace,
                   ignore_errors, check_ambiguity, onmatch_rules_lookup,
                   tokenizer_pattern, graph, constructed, history, threads>>

\* clear_visited(), after any calls
ClearVisited ==
    /\ CoverageCallable
    /\ op' = "clear_visited"
    /\ args' = <<>>
    /\ ret' = [status |-> "ok"]
    /\ visited' = clear_visited(Self, visited)
    /\ UNCHANGED <<tokens, tokens_by_class, rules, onmatch_rules, whitespace,
                   ignore_errors, check_ambiguity, onmatch_rules_lookup,
                   tokenizer_pattern, graph, rule_keys, input_tokens, constructed,
                   history, threads>>

\* check_coverage(raise_exception), after any calls
CheckCoverage ==
    /\ CoverageCallable
    /\ \E raise_exception \in BOOLEAN :
          /\ op' = "check_coverage"
          /\ args' = [raise_exception |-> raise_exception]
          /\ ret' = check_coverage(Self, visited, raise_exception)
    /\ UNCHANGED <<tokens, tokens_by_class, rules, onmatch_rules, whitespace,
                   ignore_errors, check_ambiguity, onmatch_rules_lookup,
                   tokenizer_pattern, graph, rule_keys, input_tokens, constructed>>
    /\ UNCHANGED aux

-----------------------------------------------------------------------------
(* The engines of the model: the arguments __init__ is called with.        *)

A == <<"a">>
B == <<"b">>
AB == <<"a", "b">>
SP == <<" ">>
SPSP == <<" ", " ">>
US == <<"_">>

\* The subsequences of at most n elements of a sequence.
SubSeqs(pool, n) ==
    LET pick(S) == [i \in 1..Cardinality(S) |->
                       pool[CHOOSE k \in S : Cardinality({l \in S : l < k}) = i - 1]]
    IN {pick(S) : S \in {T \in SUBSET (1..Len(pool)) : Cardinality(T) <= n}}

\* The sequences of at most n distinct elements of a set.
Arrangements(S, n) ==
    {s \in SeqsUpTo(S, n) : \A i, j \in DOMAIN s : i # j => s[i] # s[j]}

\* The tokens and classes of the engines that differ by their rules.
RuleTokens == (A :> {"c1", "c2"}) @@ (B :> {"c1"}) @@ (SP :> {"wb"})

\* The token declarations of the engines that differ by their tokenizer.
TokenizerTokens ==
    { (A :> {"c1"}) @@ (B :> {"c1"}) @@ (AB :> {"c2"}) @@ (SP :> {"wb"}),
      (A :> {"c1"}) @@ (SP :> {"wb"}) @@ (US :> {"wb"}),
      (A :> {"c1"}) @@ (SP :> {"wb"}) @@ (SPSP :> {"wb"}) @@ (US :> {"wb"}) }

\* Rules over RuleTokens, ordered by cost as the rules of an engine are.
RulePool ==
    << TransliterationRule("P1", <<>>, <<>>, <<A, B>>, <<A>>, <<"c1">>),
       TransliterationRule("P2", <<>>, <<>>, <<A>>, <<B>>, <<"c1">>),
       TransliterationRule("P3", <<>>, <<>>, <<A, B>>, <<>>, <<>>),
       TransliterationRule("P4", <<>>, <<>>, <<A>>, <<>>, <<"c1">>),
       TransliterationRule("P5", <<>>, <<>>, <<B>>, <<>>, <<"c1">>),
       TransliterationRule("P6", <<>>, <<>>, <<A>>, <<B>>, <<>>),
       TransliterationRule("P7", <<"wb">>, <<>>, <<A>>, <<>>, <<>>),
       TransliterationRule("P8", <<>>, <<A>>, <<B>>, <<>>, <<>>),
       TransliterationRule("P9", <<>>, <<>>, <<A>>, <<>>, <<>>),
       TransliterationRule("P10", <<>>, <<>>, <<B>>, <<>>, <<>>),
       TransliterationRule("P11", <<>>, <<>>, <<A>>, <<>>, <<>>),
       TransliterationRule("P12", <<>>, <<>>, <<A>>, <<>>, <<>>),
       TransliterationRule("P13", <<>>, <<>>, <<A, SP, SP>>, <<>>, <<>>),
       TransliterationRule("P14", <<>>, <<>>, <<A, SP>>, <<>>, <<"wb">>) >>

\* Rules for whole inputs: every token has a rule, some rules have context,
\* one ends with the whitespace token.
DrivePool ==
    << TransliterationRule("AB", <<>>, <<>>, <<A, B>>, <<>>, <<>>),
       TransliterationRule("A1", <<>>, <<>>, <<A>>, <<>>, <<"c1">>),
       TransliterationRule("wA", <<"wb">>, <<>>, <<A>>, <<>>, <<>>),
       TransliterationRule("A_", <<>>, <<>>, <<A, SP>>, <<>>, <<>>),
       TransliterationRule("A", <<>>, <<>>, <<A>>, <<>>, <<>>),
       TransliterationRule("B", <<>>, <<>>, <<B>>, <<>>, <<>>),
       TransliterationRule("_", <<>>, <<>>, <<SP>>, <<>>, <<>>) >>

\* Rules without context: one per token, and one for two tokens.
PlainRules ==
    << TransliterationRule("AB", <<>>, <<>>, <<A, B>>, <<>>, <<>>),
       TransliterationRule("A", <<>>, <<>>, <<A>>, <<>>, <<>>),
       TransliterationRule("B", <<>>, <<>>, <<B>>, <<>>, <<>>),
       TransliterationRule("_", <<>>, <<>>, <<SP>>, <<>>, <<>>) >>

OnMatchPool ==
    { OnMatchRule(<<"c1">>, <<"c1">>, ","),
      OnMatchRule(<<"wb", "c1">>, <<"c1">>, "!"),
      OnMatchRule(<<"c2">>, <<"c1", "c1">>, "~"),
      OnMatchRule(<<"wb">>, <<"c2">>, "^") }

\* The whitespace rules an engine over these tokens can have: the default is
\* a declared token of the whitespace class.
Whitespaces(tkns, consolidates) ==
    {WhitespaceRules(d, "wb", c) :
        d \in {t \in DOMAIN tkns : Len(t) = 1 /\ "wb" \in tkns[t]},
        c \in consolidates}

\* Before __init__: its arguments are chosen, nothing is derived yet.
InitEngine(tokenDicts, ruleLists, onmatchLists, consolidates, ignores, checks) ==
    /\ tokens \in tokenDicts
    /\ rules \in ruleLists
    /\ onmatch_rules \in onmatchLists
    /\ whitespace \in Whitespaces(tokens, consolidates)
    /\ ignore_errors \in ignores
    /\ check_ambiguity \in checks
    /\ tokens_by_class = <<>>
    /\ onmatch_rules_lookup = <<>>
    /\ tokenizer_pattern = <<>>
    /\ graph = <<>>
    /\ rule_keys = <<>>
    /\ input_tokens = <<>>
    /\ constructed = "new"
    /\ op = "new"
    /\ args = <<>>
    /\ ret = <<>>
    /\ history = <<>>
    /\ threads = [t \in Callers |-> Idle]
    /\ visited = <<>>

\* Whole inputs on engines with rules, onmatch rules and either error mode.
Init ==
    InitEngine({RuleTokens}, SubSeqs(DrivePool, MaxRules),
               Arrangements(OnMatchPool, 1), {TRUE}, BOOLEAN, {FALSE})

Next == Construct \/ Tokenize \/ MatchAt \/ Transliterate \/ PrunedOf

Spec == Init /\ [][Next]_vars

\* The matcher on every engine of at most MaxRules rules of the pool.
InitMatch ==
    InitEngine({RuleTokens}, SubSeqs(RulePool, MaxRules), {<<>>}, {TRUE},
               {FALSE}, {FALSE})

NextMatch == Construct \/ MatchAt

SpecMatch == InitMatch /\ [][NextMatch]_vars

\* The graphs of these engines.
SpecGraphFrom == InitMatch /\ [][Construct]_vars

\* The ambiguity check, and the tokens of inputs on the engines it accepts.
InitAmbiguity ==
    InitEngine({RuleTokens}, SubSeqs(RulePool, MaxRules), {<<>>}, {TRUE},
               {FALSE}, {TRUE})

NextAmbiguity == Construct \/ Tokenize

SpecAmbiguity == InitAmbiguity /\ [][NextAmbiguity]_vars

\* The tokenizer on every token declaration, whitespace rule and error mode.
InitTokenize ==
    InitEngine(TokenizerTokens, {<<>>}, {<<>>}, BOOLEAN, BOOLEAN, {FALSE})

NextTokenize == Construct \/ Tokenize

SpecTokenize == InitTokenize /\ [][NextTokenize]_vars

\* The onmatch rules, on engines whose rules have no context.
InitOnMatch ==
    InitEngine({RuleTokens}, {PlainRules}, Arrangements(OnMatchPool, MaxOnMatch),
               {TRUE}, {FALSE}, {FALSE})

NextOnMatch == Construct \/ Transliterate

SpecOnMatch == InitOnMatch /\ [][NextOnMatch]_vars

\* Rules for the engines called again and again: two tokens, one token, and
\* the whitespace token.
RepeatRules ==
    << TransliterationRule("AA", <<>>, <<>>, <<A, A>>, <<>>, <<>>),
       TransliterationRule("A", <<>>, <<>>, <<A>>, <<>>, <<>>),
       TransliterationRule("_", <<>>, <<>>, <<SP>>, <<>>, <<>>) >>

RepeatTokens == (A :> {"c1"}) @@ (SP :> {"wb"})

\* Any sequence of calls on an engine, in either error mode.
InitRepeat ==
    InitEngine({RepeatTokens}, {RepeatRules, SubSeq(RepeatRules, 1, 2)}, {<<>>},
               {TRUE}, BOOLEAN, {FALSE})

NextRepeat == Construct \/ TokenizeAgain \/ MatchAtAgain \/ TransliterateAgain

SpecRepeat == InitRepeat /\ [][NextRepeat]_vars

\* Two concurrent transliterate calls on one engine.
NextCallers == Construct \/ CallTokenize \/ CallSaveTokens \/ CallResetKeys \/ CallStep

SpecCallers == InitRepeat /\ [][NextCallers]_vars

\* The onmatch rules of the CoverageTransliterators.
CoverageOnMatch ==
    << OnMatchRule(<<"wb", "c1">>, <<"c1">>, "!"),
       OnMatchRule(<<"c1">>, <<"c1">>, ",") >>

\* CoverageTransliterators with or without a rule for the whitespace token,
\* with no, one or two onmatch rules, in either error mode.
InitCoverage ==
    InitEngine({RepeatTokens}, {RepeatRules, SubSeq(RepeatRules, 1, 2)},
               {<<>>, SubSeq(CoverageOnMatch, 2, 2), CoverageOnMatch,
                <<CoverageOnMatch[2], CoverageOnMatch[1]>>},
               {TRUE}, BOOLEAN, {FALSE})

NextCoverage == CoverageTransliterator \/ CoverageTransliterate \/ ClearVisited \/ CheckCoverage

SpecCoverage == InitCoverage /\ [][NextCoverage]_vars

-----------------------------------------------------------------------------
(* What the claims speak of.                                               *)

\* The classes hold on the window of tks that starts at the 0-based
\* position start, which lies inside the list.
ClassesHold(classes, tks, start) ==
    /\ start >= 0
    /\ start + Len(classes) <= Len(tks)
    /\ \A k \in 1..Len(classes) : classes[k] \in tokens[tks[start + k]]

\* The tokens are those of the window of tks that starts at start.
TokensHold(tkns, tks, start) ==
    /\ start >= 0
    /\ start + Len(tkns) <= Len(tks)
    /\ \A k \in 1..Len(tkns) : tkns[k] = tks[start + k]

\* The rule matches at position p: its tokens are there, its previous
\* classes and tokens directly before them, its next tokens and classes
\* directly after.
RuleMatchesAt(rule, tks, p) ==
    /\ TokensHold(rule.tokens, tks, p)
    /\ TokensHold(rule.prev_tokens, tks, p - Len(rule.prev_tokens))
    /\ ClassesHold(rule.prev_classes, tks,
                   p - Len(rule.prev_tokens) - Len(rule.prev_classes))
    /\ TokensHold(rule.next_tokens, tks, p + Len(rule.tokens))
    /\ ClassesHold(rule.next_classes, tks,
                   p + Len(rule.tokens) + Len(rule.next_tokens))

RuleKeys == 0..(Len(rules) - 1)

CostOf(rule_key) == rules[rule_key + 1].cost

-----------------------------------------------------------------------------
(* The matcher returns a least costly rule.                                *)

\* C1: when match_at returns all the rules matching at a position, the rule
\* it returns for the same position with match_all=False is one of least
\* cost among them.
C1_SingleMatchIsLeastCostly ==
    (op = "match_at" /\ ~args.match_all /\ ret.status = "ok") =>
        LET all == match_at(Self, args.token_i, args.tokens, TRUE)
        IN (all.status = "ok" /\ all.keys # <<>>) =>
              /\ ret.type = "int"
              /\ CostOf(ret.keys[1]) = Min({CostOf(k) : k \in Range(all.keys)})

-----------------------------------------------------------------------------
(* The ambiguity check.                                                    *)

\* C2: on an engine constructed with check_ambiguity, at every position of
\* every token list tokenize returns, two distinct rules of equal cost match
\* only if a rule of strictly lower cost matches there too.
C2_NoUnresolvedTie ==
    (constructed = "ok" /\ check_ambiguity /\ op = "tokenize" /\ ret.status = "ok") =>
        \A p \in 1..(Len(ret.tokens) - 2) : \A i, j \in RuleKeys :
            (/\ i # j
             /\ CostOf(i) = CostOf(j)
             /\ RuleMatchesAt(rules[i + 1], ret.tokens, p)
             /\ RuleMatchesAt(rules[j + 1], ret.tokens, p)) =>
                \E k \in RuleKeys :
                    /\ CostOf(k) < CostOf(i)
                    /\ RuleMatchesAt(rules[k + 1], ret.tokens, p)

\* Two rules of equal cost overlap and no other rule covers their overlap.
UncoveredOverlap(i, j) ==
    LET m == matrix(Self)
        intersection == full_intersection(Self, m, i, j)
    IN /\ i < j
       /\ CostOf(i) = CostOf(j)
       /\ intersection # <<>>
       /\ \A r \in RuleKeys \ {i, j} : ~covered_by(intersection, m[r + 1])

\* C3: check_for_ambiguity raises whenever two rules of equal cost overlap
\* at every position of their rows and no other rule covers the overlap.
C3_EveryPairExamined ==
    (op = "__init__" /\ check_ambiguity) =>
        ((\E i, j \in RuleKeys : UncoveredOverlap(i, j)) =>
            constructed = "AmbiguousTransliterationRulesException")

\* C4: an overlapping pair that check_for_ambiguity does not report is
\* covered by a rule of strictly lower cost.
C4_ResolvedOnlyByCheaper ==
    (op = "__init__" /\ check_ambiguity) =>
        \A k \in DOMAIN ret.overlaps :
            LET pair == ret.overlaps[k]
                m == matrix(Self)
            IN pair \notin Range(ret.reports) =>
                  \E r \in RuleKeys :
                      /\ CostOf(r) < CostOf(pair[1])
                      /\ covered_by(full_intersection(Self, m, pair[1], pair[2]),
                                    m[r + 1])

-----------------------------------------------------------------------------
(* The tokenizer.                                                          *)

\* The declared tokens that are a prefix of the input from position at.
TokensAt(input, at) == {t \in DOMAIN tokens : StartsWith(input, t, at)}

\* C5: the scan starts at 0 and, where a declared token is a prefix of the
\* rest of the input, matches the longest such token and goes on right
\* after it.
C5_MaximalMunch ==
    op = "tokenize" =>
        \A k \in DOMAIN ret.scan :
            LET step == ret.scan[k]
            IN /\ step.at = IF k = 1 THEN 0 ELSE ret.scan[k - 1].end
               /\ TokensAt(args.input, step.at) # {} =>
                     /\ step.match # <<>>
                     /\ step.match[1] \in TokensAt(args.input, step.at)
                     /\ \A t \in TokensAt(args.input, step.at) :
                            Len(t) <= Len(step.match[1])
                     /\ step.end = step.at + Len(step.match[1])

\* A scan met a position where a shorter token and a longer one both match.
C5_Witness ==
    /\ op = "tokenize"
    /\ \E k \in DOMAIN ret.scan :
          \E t, u \in TokensAt(args.input, ret.scan[k].at) : Len(t) < Len(u)

IsWhitespace(token) == whitespace.token_class \in tokens[token]

C7_Sentinels ==
    (op = "tokenize" /\ ret.status = "ok") =>
        /\ Len(ret.tokens) >= 2
        /\ ret.tokens[1] = whitespace.default
        /\ ret.tokens[Len(ret.tokens)] = whitespace.default

\* An input of whitespace only, consolidated away.
C7_Witness ==
    /\ op = "tokenize" /\ ret.status = "ok" /\ whitespace.consolidate
    /\ args.input # <<>>
    /\ \A k \in DOMAIN ret.scan :
          ret.scan[k].match # <<>> /\ IsWhitespace(ret.scan[k].match[1])

\* The tokens the scan matched, in order.
Matched(scan) ==
    LET hit(step) == step.match # <<>>
        hits == SelectSeq(scan, hit)
    IN [k \in DOMAIN hits |-> hits[k].match[1]]

\* The matched tokens with every run of whitespace tokens rendered as one
\* default whitespace token, the runs at both ends being the sentinels.
RECURSIVE Rendered(_, _, _)
Rendered(matched, k, acc) ==
    IF k > Len(matched)
    THEN IF Len(acc) > 1 /\ acc[Len(acc)] = whitespace.default THEN acc
         ELSE Append(acc, whitespace.default)
    ELSE IF IsWhitespace(matched[k])
         THEN Rendered(matched, k + 1,
                       IF acc[Len(acc)] = whitespace.default THEN acc
                       ELSE Append(acc, whitespace.default))
         ELSE Rendered(matched, k + 1, Append(acc, matched[k]))

\* C8: with consolidate, every run of whitespace tokens is rendered as a
\* single default whitespace token, whatever whitespace tokens it is made of.
C8_RunsRenderedAsDefault ==
    (op = "tokenize" /\ whitespace.consolidate /\ ret.status = "ok") =>
        ret.tokens = Rendered(Matched(ret.scan), 1, <<whitespace.default>>)

-----------------------------------------------------------------------------
(* The onmatch rules.                                                      *)

\* The onmatch rule is satisfied around position p: its previous classes by
\* the tokens ending at p - 1, its next classes by the tokens starting at p.
OnMatchHolds(onmatch, tks, p) ==
    /\ ClassesHold(onmatch.prev_classes, tks, p - Len(onmatch.prev_classes))
    /\ ClassesHold(onmatch.next_classes, tks, p)

\* The first onmatch rule, in declared order, satisfied around position p.
FirstSatisfied(tks, p) ==
    LET S == {i \in DOMAIN onmatch_rules : OnMatchHolds(onmatch_rules[i], tks, p)}
    IN IF S = {} THEN <<>> ELSE <<Min(S) - 1>>

\* What the applied rules, from the k-th on, add to the output: before each
\* rule's production, the production of the onmatch rule found by scanning.
RECURSIVE Productions(_, _, _)
Productions(applied, tks, k) ==
    IF k > Len(applied) THEN ""
    ELSE LET first == FirstSatisfied(tks, applied[k].token_i)
             inserted == IF first = <<>> THEN ""
                         ELSE onmatch_rules[first[1] + 1].production
         IN inserted \o rules[applied[k].rule_key + 1].production
                     \o Productions(applied, tks, k + 1)

\* C9: before the production of each rule it applies, transliterate puts the
\* production of the first onmatch rule, in declared order, whose classes
\* hold around the rule's position, and nothing when there is none.
C9_FirstOnMatchInserted ==
    (op = "transliterate" /\ ret.status = "ok") =>
        LET tks == ret.input_tokens[1]
        IN /\ \A k \in DOMAIN ret.applied :
                  ret.applied[k].onmatch = FirstSatisfied(tks, ret.applied[k].token_i)
           /\ ret.output = Productions(ret.applied, tks, 1)

\* A rule was applied where the first declared onmatch rule agrees with the
\* two tokens around the position but not with its whole window, and the
\* second onmatch rule was inserted.
C9_Witness ==
    /\ op = "transliterate" /\ ret.status = "ok"
    /\ Len(onmatch_rules) = 2
    /\ \E k \in DOMAIN ret.applied :
          LET tks == ret.input_tokens[1]
              p == ret.applied[k].token_i
              first == onmatch_rules[1]
          IN /\ ret.applied[k].onmatch = <<1>>
             /\ first.next_classes[1] \in tokens[tks[p + 1]]
             /\ first.prev_classes[Len(first.prev_classes)] \in tokens[tks[p]]
             /\ ~OnMatchHolds(first, tks, p)

-----------------------------------------------------------------------------
(* The failures of transliterate.                                          *)

\* The scan of the input from position at reaches a position where no
\* declared token is a prefix of the rest of the input.
RECURSIVE ScanReachesUnrecognizable(_, _)
ScanReachesUnrecognizable(input, at) ==
    IF ~(at < Len(input)) THEN FALSE
    ELSE IF TokensAt(input, at) = {} THEN TRUE
    ELSE ScanReachesUnrecognizable(input,
             at + Max({Len(t) : t \in TokensAt(input, at)}))

\* The driving loop, from position p on, reaches a position where no rule
\* matches.
RECURSIVE LoopReachesNoMatch(_, _)
LoopReachesNoMatch(tks, p) ==
    IF ~(p < Len(tks) - 1) THEN FALSE
    ELSE LET matching == {k \in RuleKeys : RuleMatchesAt(rules[k + 1], tks, p)}
         IN IF matching = {} THEN TRUE
            ELSE \E k \in matching :
                    /\ CostOf(k) = Min({CostOf(l) : l \in matching})
                    /\ LoopReachesNoMatch(tks, p + Len(rules[k + 1].tokens))

\* C10: transliterate fails only when errors are not ignored, with
\* UnrecognizableInputTokenException exactly when the scan reaches a position
\* where no declared token begins, with NoMatchingTransliterationRuleException
\* only when the loop reaches a position where no rule matches, and returns a
\* string in every other case.
C10_FailsOnlyOnReportedErrors ==
    op = "transliterate" =>
        /\ ret.status \in {"ok", "UnrecognizableInputTokenException",
                           "NoMatchingTransliterationRuleException"}
        /\ ret.status # "ok" => ~ignore_errors
        /\ ret.status = "UnrecognizableInputTokenException" <=>
              (~ignore_errors /\ ScanReachesUnrecognizable(args.input, 0))
        /\ ret.status = "NoMatchingTransliterationRuleException" =>
              /\ ~ScanReachesUnrecognizable(args.input, 0)
              /\ LoopReachesNoMatch(tokenize(Self, args.input).tokens, 1)

-----------------------------------------------------------------------------
(* Ignored errors.                                                         *)

NotWhitespace(token) == ~IsWhitespace(token)

\* The positions of tks, between the sentinels, that no applied rule covers.
Uncovered(applied, tks) ==
    {q \in 1..(Len(tks) - 2) :
        \A k \in DOMAIN applied :
            ~(/\ applied[k].token_i <= q
              /\ q < applied[k].token_i + Len(rules[applied[k].rule_key + 1].tokens))}

-----------------------------------------------------------------------------
(* pruned_of.                                                              *)

\* The productions given to pruned_of, as a set.
GivenProductions == Range(args.productions.value)

\* The sequence s is t with some of its elements left out.
RECURSIVE IsSubsequence(_, _)
IsSubsequence(s, t) ==
    IF s = <<>> THEN TRUE
    ELSE IF t = <<>> THEN FALSE
    ELSE IF s[1] = t[1] THEN IsSubsequence(Tail(s), Tail(t))
    ELSE IsSubsequence(s, Tail(t))

\* C12: the rules of the engine pruned_of returns hold no rule whose
\* production is one of those given, and are rules of this engine in the
\* order they have in this engine.
C12_PrunedRulesInOrder ==
    (op = "pruned_of" /\ ret.status = "ok") =>
        /\ \A k \in DOMAIN ret.engine.rules :
              ret.engine.rules[k].production \notin GivenProductions
        /\ IsSubsequence(ret.engine.rules, rules)

\* A list of productions removed a rule and kept a rule that follows it.
C12_Witness ==
    /\ op = "pruned_of" /\ ret.status = "ok" /\ args.productions.type = "list"
    /\ \E i, j \in DOMAIN rules :
          /\ i < j
          /\ rules[i].production \in GivenProductions
          /\ rules[j] \in Range(ret.engine.rules)

\* C13: pruned_of keeps every rule whose production is not one of those
\* given, whether they are given as a list or as one string.
C13_OnlyGivenProductionsRemoved ==
    (op = "pruned_of" /\ ret.status = "ok") =>
        \A k \in DOMAIN rules :
            rules[k].production \notin GivenProductions =>
                rules[k] \in Range(ret.engine.rules)

-----------------------------------------------------------------------------
(* Repeated calls.                                                         *)

\* C14: a transliterate call on the input of a remembered call, whatever was
\* called in between, ends as the remembered call did and, when it returns,
\* returns the same output with the same matched rules.
C14_SameInputSameResult ==
    (op = "transliterate" /\ history # <<>> /\ history[1].input = args.input) =>
        /\ ret.status = history[1].outcome.status
        /\ ret.status = "ok" =>
              /\ ret.output = history[1].outcome.output
              /\ ret.rule_keys = history[1].outcome.rule_keys
              /\ rule_keys = history[1].outcome.rule_keys

\* A call matched rules on the input of a remembered call, after the
\* transliteration of another input.
C14_Witness ==
    /\ op = "transliterate" /\ history # <<>> /\ history[1].input = args.input
    /\ history[1].between
    /\ ret.status = "ok" /\ ret.rule_keys # <<>>

-----------------------------------------------------------------------------
(* Concurrent calls.                                                       *)

\* C15: a transliterate call interleaved with another ends as it does when
\* run alone, with the same output.
C15_OutputAsWhenAlone ==
    \A t \in Callers :
        threads[t].pc = "done" =>
            LET alone == transliterate(Self, threads[t].input)
            IN /\ threads[t].status = alone.status
               /\ alone.status = "ok" => threads[t].output = alone.output

\* Both calls returned, on different inputs, and the second to read its
\* tokens was the first to return.
C15_Witness ==
    /\ \A t \in Callers : threads[t].pc = "done" /\ threads[t].status = "ok"
    /\ threads[1].output # threads[2].output
    /\ threads[1].output # "" /\ threads[2].output # ""

\* C16: once both calls have returned, the keys and the tokens left on the
\* engine are those of one of the two calls.
C16_TraceOfOneCall ==
    (\A t \in Callers : threads[t].pc = "done" /\ threads[t].status = "ok") =>
        \E t \in Callers :
            /\ rule_keys = threads[t].matched
            /\ input_tokens = <<threads[t].tokens>>

-----------------------------------------------------------------------------
(* What the operations leave alone.                                        *)

\* C17: tokenize, match_at, transliterate and pruned_of leave the engine's
\* tokens, rules, onmatch rules, onmatch lookup, tokenizer pattern and graph
\* as they were.
C17_EngineUnchanged ==
    [][op' \in {"tokenize", "match_at", "transliterate", "pruned_of"} =>
          UNCHANGED <<tokens, rules, onmatch_rules, onmatch_rules_lookup,
                      tokenizer_pattern, graph>>]_vars

\* pruned_of returned an engine with fewer rules and another graph than the
\* engine it was called on has.
C17_Witness ==
    /\ op = "pruned_of" /\ ret.status = "ok"
    /\ Len(ret.engine.rules) < Len(rules)
    /\ ret.engine.graph # graph
    /\ graph = _graph_from(rules)

-----------------------------------------------------------------------------
(* The two modes of match_at.                                              *)

\* C18: at any position of any token list, match_at with match_all returns
\* a list and without it a rule key or None: None when the list is empty,
\* the first key of the list otherwise.
C18_SingleIsFirstOfAll ==
    op = "match_at" =>
        LET single == match_at(Self, args.token_i, args.tokens, FALSE)
            all == match_at(Self, args.token_i, args.tokens, TRUE)
        IN /\ all.status = "ok" /\ all.type = "list"
           /\ single.status = "ok" /\ single.type \in {"int", "None"}
           /\ single.type = "None" <=> all.keys = <<>>
           /\ single.type = "int" => single.keys[1] = all.keys[1]

-----------------------------------------------------------------------------
(* The applied rules and the input tokens.                                 *)

\* The lists of a list of lists, one after the other.
RECURSIVE Flattened(_)
Flattened(lists) ==
    IF lists = <<>> THEN <<>> ELSE lists[1] \o Flattened(Tail(lists))

\* last_matched_rule_tokens
LastMatchedRuleTokens == [k \in DOMAIN rule_keys |-> rules[rule_keys[k] + 1].tokens]

\* C19: after a transliterate call that returns with ignore_errors=False,
\* the tokens of the matched rules, one after the other, are the input
\* tokens without the two sentinels.
C19_RulesPartitionTokens ==
    (op = "transliterate" /\ ~ignore_errors /\ ret.status = "ok") =>
        Flattened(LastMatchedRuleTokens)
            = SubSeq(input_tokens[1], 2, Len(input_tokens[1]) - 1)

-----------------------------------------------------------------------------
(* Coverage.                                                               *)

\* Every node and every edge of the graph is marked visited.
GraphVisited ==
    /\ \A node_key \in 0..(Len(graph.node) - 1) : node_key \in visited.node
    /\ \A e \in Range(graph.edge_list) : e \in visited.edge

\* Every onmatch rule is marked visited.
OnMatchVisited == \A i \in 0..(Len(onmatch_rules) - 1) : i \in visited.onmatch

\* check_coverage returns True.
Succeeds(outcome) == outcome.status = "ok" /\ outcome.okay

\* What check_coverage gives on a CoverageTransliterator, with
\* raise_exception or without.
CoverageChecked ==
    (constructed = "ok" /\ visited # <<>>) =>
        \A raise_exception \in BOOLEAN :
            LET outcome == check_coverage(Self, visited, raise_exception)
            IN /\ Succeeds(outcome) <=> (GraphVisited /\ OnMatchVisited)
               /\ op \in {"__init__", "clear_visited"} => ~Succeeds(outcome)
               /\ (raise_exception /\ ~GraphVisited) =>
                      outcome.status = "IncompleteGraphCoverageException"
               /\ (raise_exception /\ GraphVisited /\ ~OnMatchVisited) =>
                      outcome.status = "IncompleteOnMatchRulesCoverageException"
               /\ ~raise_exception => outcome.status = "ok"

\* A transliterate call on a CoverageTransliterator keeps every visit mark.
MarksKept ==
    (op' = "transliterate" /\ visited # <<>>) =>
        /\ visited.node \subseteq visited'.node
        /\ visited.head \subseteq visited'.head
        /\ visited.edge \subseteq visited'.edge
        /\ visited.onmatch \subseteq visited'.onmatch

\* C20: on a CoverageTransliterator, after any transliterate and
\* clear_visited calls, check_coverage succeeds if and only if every node,
\* every edge and every onmatch rule is marked visited; it fails right after
\* construction and right after clear_visited; an uncovered graph is reported
\* (IncompleteGraphCoverageException) before uncovered onmatch rules
\* (IncompleteOnMatchRulesCoverageException); and transliterate removes no
\* visit mark.
C20_CoverageChecked == [](CoverageChecked) /\ [][MarksKept]_vars

\* check_coverage succeeded on an engine with two onmatch rules, after
\* transliterate calls that visited everything.
C20_Witness ==
    /\ op = "check_coverage" /\ Succeeds(ret)
    /\ Len(onmatch_rules) = 2
    /\ GraphVisited /\ OnMatchVisited

-----------------------------------------------------------------------------
(* DirectedGraph, called with arguments of any type.                       *)

\* A Python value given as an argument: its type and its value.
PyInt(n) == [type |-> "int", value |-> n]

PyDict(d) == [type |-> "dict", value |-> d]

PyOther(type, value) == [type |-> type, value |-> value]

\* The data arguments: left out (None), a dict and a list.
DataArgs == {PyOther("None", <<>>), PyDict([cost |-> 1]), PyOther("list", <<>>)}

\* The head and tail arguments: ints from -1 to the number of nodes, "1"
\* and True.
IndexArgs(g) == {PyInt(n) : n \in -1..Len(g.node)} \cup {PyOther("str", 1), PyOther("bool", 1)}

\* DirectedGraph.add_node keeping data that is not a dict.
add_node_unchecked(g, node_data) ==
    LET data == IF node_data.type = "None" THEN <<>> ELSE node_data.value
    IN [status |-> "ok", graph |-> add_node(g, data), key |-> Len(g.node), data |-> data]

\* DirectedGraph.add_node(node_data): the outcome and the graph it leaves.
DirectedGraph_add_node(g, node_data) ==
    LET data == IF node_data.type = "None" THEN PyDict(<<>>) ELSE node_data
    IN IF data.type # "dict"
       THEN [status |-> "ValueError", graph |-> g, key |-> -1, data |-> <<>>]
       ELSE [status |-> "ok", graph |-> add_node(g, data.value),
             key |-> Len(g.node), data |-> data.value]

\* DirectedGraph.add_edge(head, tail, edge_data): the outcome and the graph
\* it leaves.
DirectedGraph_add_edge(g, head, tail, edge_data) ==
    LET data == IF edge_data.type = "None" THEN PyDict(<<>>) ELSE edge_data
        failed == [status |-> "ValueError", graph |-> g, data |-> <<>>]
    IN IF head.type # "int" THEN failed
       ELSE IF tail.type # "int" THEN failed
       ELSE IF head.value < 0 \/ head.value >= Len(g.node) THEN failed
       ELSE IF tail.value < 0 \/ tail.value >= Len(g.node) THEN failed
       ELSE IF data.type # "dict" THEN failed
       ELSE [status |-> "ok", data |-> data.value,
             graph |-> add_edge(g, head.value, tail.value, data.value)]

\* No call on the graph has raised: an exception ends the construction.
GraphCallable == op = "DirectedGraph" \/ (op \in {"add_node", "add_edge"} /\ ret.status = "ok")

\* g.add_node(node_data) on the graph under construction
GraphAddNode ==
    /\ GraphCallable
    /\ Len(graph.node) < MaxNodes
    /\ \E node_data \in DataArgs :
          LET outcome == DirectedGraph_add_node(graph, node_data)
          IN /\ op' = "add_node"
             /\ args' = [node_data |-> node_data, before |-> graph]
             /\ ret' = [status |-> outcome.status, key |-> outcome.key, data |-> outcome.data]
             /\ graph' = outcome.graph
    /\ UNCHANGED <<tokens, tokens_by_class, rules, onmatch_rules, whitespace,
                   ignore_errors, check_ambiguity, onmatch_rules_lookup,
                   tokenizer_pattern, rule_keys, input_tokens, constructed>>
    /\ UNCHANGED aux

\* g.add_edge(head, tail, edge_data) on the graph under construction
GraphAddEdge ==
    /\ GraphCallable
    /\ Len(graph.edge_list) < MaxEdges
    /\ \E head \in IndexArgs(graph), tail \in IndexArgs(graph), edge_data \in DataArgs :
          LET outcome == DirectedGraph_add_edge(graph, head, tail, edge_data)
          IN /\ op' = "add_edge"
             /\ args' = [head |-> head, tail |-> tail, edge_data |-> edge_data, before |-> graph]
             /\ ret' = [status |-> outcome.status, data |-> outcome.data]
             /\ graph' = outcome.graph
    /\ UNCHANGED <<tokens, tokens_by_class, rules, onmatch_rules, whitespace,
                   ignore_errors, check_ambiguity, onmatch_rules_lookup,
                   tokenizer_pattern, rule_keys, input_tokens, constructed>>
    /\ UNCHANGED aux

\* A DirectedGraph() of its own, outside any engine.
InitGraph ==
    /\ graph = DirectedGraph
    /\ op = "DirectedGraph"
    /\ args = <<>>
    /\ ret = <<>>
    /\ tokens = <<>>
    /\ tokens_by_class = <<>>
    /\ rules = <<>>
    /\ onmatch_rules = <<>>
    /\ whitespace = <<>>
    /\ ignore_errors = FALSE
    /\ check_ambiguity = FALSE
    /\ onmatch_rules_lookup = <<>>
    /\ tokenizer_pattern = <<>>
    /\ rule_keys = <<>>
    /\ input_tokens = <<>>
    /\ constructed = "none"
    /\ history = <<>>
    /\ threads = [t \in Callers |-> Idle]
    /\ visited = <<>>

NextGraph == GraphAddNode \/ GraphAddEdge

SpecGraph == InitGraph /\ [][NextGraph]_vars

\* head or tail is the integer index of an existing node of the graph g.
IsNodeIndex(g, x) == x.type = "int" /\ x.value \in 0..(Len(g.node) - 1)

\* C21: add_edge raises ValueError and leaves node, edge and edge_list as
\* they were when head or tail is not the integer index of an existing node
\* or the data given is not a dict; add_node raises ValueError and adds no
\* node when the data given is not a dict; otherwise add_node returns the
\* previous number of nodes as the new index and add_edge stores the data at
\* edge[head][tail].  Data left out (None) stands for an empty dict.
C21_GraphCallsChecked ==
    /\ op = "add_edge" =>
          LET valid == /\ IsNodeIndex(args.before, args.head)
                       /\ IsNodeIndex(args.before, args.tail)
                       /\ args.edge_data.type \in {"dict", "None"}
          IN IF valid
             THEN /\ ret.status = "ok"
                  /\ graph.edge[args.head.value][args.tail.value] = ret.data
                  /\ ret.data = IF args.edge_data.type = "dict"
                                THEN args.edge_data.value ELSE <<>>
                  /\ <<args.head.value, args.tail.value>> \in Range(graph.edge_list)
                  /\ graph.node = args.before.node
             ELSE /\ ret.status = "ValueError"
                  /\ graph = args.before
    /\ op = "add_node" =>
          IF args.node_data.type \in {"dict", "None"}
          THEN /\ ret.status = "ok"
               /\ ret.key = Len(args.before.node)
               /\ Len(graph.node) = ret.key + 1
               /\ graph.node[ret.key + 1] = ret.data
               /\ ret.data = IF args.node_data.type = "dict"
                             THEN args.node_data.value ELSE <<>>
               /\ SubSeq(graph.node, 1, ret.key) = args.before.node
               /\ graph.edge = args.before.edge
               /\ graph.edge_list = args.before.edge_list
          ELSE /\ ret.status = "ValueError"
               /\ graph = args.before

\* An edge with data was stored between two nodes of a graph that has an
\* edge already.
C21_Witness ==
    /\ op = "add_edge" /\ ret.status = "ok"
    /\ args.head.value # args.tail.value
    /\ ret.data # <<>>
    /\ Len(graph.edge_list) >= 2

-----------------------------------------------------------------------------
(* dump, compress_config and decompress_config.                            *)

\* A TransliterationRule with the cost given rather than derived.
TransliterationRuleCosting(production, rtokens, cost) ==
    [production |-> production, prev_classes |-> <<>>, prev_tokens |-> <<>>,
     tokens |-> rtokens, next_tokens |-> <<>>, next_classes |-> <<>>, cost |-> cost]

\* The class names of the model, as sorted() orders them.
ClassAlphabet == <<"c1", "c2", "wb">>

\* sorted(S) of a set of class names, and of a set of node types.
SortedNames(S, alphabet) ==
    LET kept == {i \in DOMAIN alphabet : alphabet[i] \in S}
    IN [i \in 1..Cardinality(kept) |->
           alphabet[CHOOSE k \in kept : Cardinality({l \in kept : l < k}) = i - 1]]

\* sorted(config["tokens"].keys())
SortedTokens(tokenSet) ==
    [i \in 1..Cardinality(tokenSet) |->
        CHOOSE t \in tokenSet : Cardinality({u \in tokenSet : StrLess(u, t)}) = i - 1]

\* {_: i for i, _ in enumerate(list)}[x]
IdIn(list, x) == (CHOOSE i \in DOMAIN list : list[i] = x) - 1

\* NodeDataSchema.strip_empty: a node without its empty values.
StripNode(node) ==
    [k \in {k \in DOMAIN node :
               /\ k = "ordered_children" => DOMAIN node[k] # {}
               /\ k = "accepting" => node[k]} |-> node[k]]

\* dump(): the configuration of the engine as plain data.  The classes of a
\* token are listed in sorted order.
dump(self) ==
    [tokens |-> [t \in DOMAIN self.tokens |-> SortedNames(self.tokens[t], ClassAlphabet)],
     rules |-> self.rules,
     whitespace |-> self.whitespace,
     onmatch_rules |-> self.onmatch_rules,
     graph |-> [node |-> [k \in DOMAIN self.graph.node |-> StripNode(self.graph.node[k])],
                edge |-> self.graph.edge]]

\* log2(1 + 1 / (n + 0.5)) in thousandths, truncated: the costs at which
\* round(1 / (2**x - 1) - 1) steps from n to n - 1.
HalfTable == <<736, 485, 362, 289, 240, 206, 180, 160, 144, 130>>

\* compressed_cost: -1 * round(1 / (2**x - 1) - 1), for a cost below log2(3).
compressed_cost(x) == 0 - Cardinality({n \in DOMAIN HalfTable : x <= HalfTable[n]})

\* decompressed_cost: log2(1 + 1 / (1 - x)), in thousandths.
decompressed_cost(x) == IF x = 0 THEN 1000 ELSE Log2Table[0 - x]

\* The int 0 that stands for None in a compressed configuration, kept apart
\* from the tuples of ids.
Zero == <<-1>>

\* tuple(ids of v) if v else 0
IdsOrZero(list, v) == IF v = <<>> THEN Zero ELSE [i \in DOMAIN v |-> IdIn(list, v[i])]

\* [list[i] for i in ids] if ids else []
NamesOrEmpty(list, ids) == IF ids = Zero THEN <<>> ELSE [i \in DOMAIN ids |-> list[ids[i] + 1]]

\* compress_edge_data
compress_edge_data(class_list, token_list, data) ==
    LET constraints == Get(data, "constraints")
        new_constraints ==
            IF DOMAIN constraints = {} THEN <<>>
            ELSE << IdsOrZero(class_list, Get(constraints, "prev_classes")),
                    IdsOrZero(token_list, Get(constraints, "prev_tokens")),
                    IdsOrZero(token_list, Get(constraints, "next_tokens")),
                    IdsOrZero(class_list, Get(constraints, "next_classes")) >>
    IN [constraints |-> new_constraints,
        cost |-> compressed_cost(data["cost"]),
        token |-> IF "token" \in DOMAIN data THEN IdIn(token_list, data["token"]) ELSE -1]

\* compressed_ordered_children of compress_node: the keys become token ids,
\* "__rules__" becomes -1.
compressed_ordered_children(token_list, node) ==
    LET x == node["ordered_children"]
        key(k) == IF k = RulesKey THEN -1 ELSE IdIn(token_list, k)
    IN [i \in {key(k) : k \in DOMAIN x} |-> x[CHOOSE k \in DOMAIN x : key(k) = i]]

\* compress_node: "AttributeError" for a Start or token node without
\* ordered_children.
compress_node(nodetype_list, token_list, node) ==
    LET type_id == IdIn(nodetype_list, node["type"])
        accepting == IF "accepting" \in DOMAIN node /\ node["accepting"] THEN 1 ELSE 0
    IN IF node["type"] = "rule"
       THEN [status |-> "ok", type_id |-> type_id, accepting |-> accepting,
             rule_key |-> node["rule_key"], token |-> -1, ordered_children |-> <<>>]
       ELSE IF "ordered_children" \notin DOMAIN node
       THEN [status |-> "AttributeError", type_id |-> type_id, accepting |-> accepting,
             rule_key |-> -1, token |-> -1, ordered_children |-> <<>>]
       ELSE [status |-> "ok", type_id |-> type_id, accepting |-> accepting,
             rule_key |-> -1,
             token |-> IF node["type"] = "token" THEN IdIn(token_list, node["token"]) ELSE -1,
             ordered_children |-> compressed_ordered_children(token_list, node)]

\* compress_config(config, compression_level), for the levels 1 and 2.
compress_config(config, compression_level) ==
    LET token_list == SortedTokens(DOMAIN config.tokens)
        class_list == SortedNames(UNION {Range(config.tokens[t]) : t \in DOMAIN config.tokens}, ClassAlphabet)
        nodetype_list == SortedNames({n["type"] : n \in Range(config.graph.node)}, <<"Start", "rule", "token">>)
        tkns == [i \in DOMAIN token_list |->
                    [j \in DOMAIN config.tokens[token_list[i]] |->
                        IdIn(class_list, config.tokens[token_list[i]][j])]]
        rls == [i \in DOMAIN config.rules |->
                   LET r == config.rules[i]
                   IN [production |-> r.production,
                       prev_classes |-> IdsOrZero(class_list, r.prev_classes),
                       prev_tokens |-> IdsOrZero(token_list, r.prev_tokens),
                       tokens |-> [j \in DOMAIN r.tokens |-> IdIn(token_list, r.tokens[j])],
                       next_tokens |-> IdsOrZero(token_list, r.next_tokens),
                       next_classes |-> IdsOrZero(class_list, r.next_classes),
                       cost |-> compressed_cost(r.cost)]]
        wsp == [default |-> config.whitespace.default,
                token_class |-> config.whitespace.token_class,
                consolidate |-> IF config.whitespace.consolidate THEN 1 ELSE 0]
        omr == IF config.onmatch_rules = <<>> THEN <<>>
               ELSE [i \in DOMAIN config.onmatch_rules |->
                        LET r == config.onmatch_rules[i]
                        IN [prev_classes |-> [j \in DOMAIN r.prev_classes |-> IdIn(class_list, r.prev_classes[j])],
                            next_classes |-> [j \in DOMAIN r.next_classes |-> IdIn(class_list, r.next_classes[j])],
                            production |-> r.production]]
        node == [k \in DOMAIN config.graph.node |->
                    compress_node(nodetype_list, token_list, config.graph.node[k])]
        edge == [h \in DOMAIN config.graph.edge |->
                    [t \in DOMAIN config.graph.edge[h] |->
                        compress_edge_data(class_list, token_list, config.graph.edge[h][t])]]
        base == [status |-> "ok", class_list |-> class_list, token_list |-> token_list,
                 tokens |-> tkns, rules |-> rls, whitespace |-> wsp, onmatch_rules |-> omr,
                 graph |-> <<>>]
    IN IF compression_level = 2 THEN base
       ELSE IF \E k \in DOMAIN node : node[k].status # "ok"
       THEN [base EXCEPT !.status = "AttributeError"]
       ELSE [base EXCEPT !.graph = <<[nodetype_list |-> nodetype_list, node |-> node, edge |-> edge]>>]

\* decompress_node, with _strip_empty
decompress_node(nodetype_list, token_list, node) ==
    LET node_type == nodetype_list[node.type_id + 1]
        children == [k \in {IF i = -1 THEN RulesKey ELSE token_list[i + 1] : i \in DOMAIN node.ordered_children} |->
                        node.ordered_children[IF k = RulesKey THEN -1 ELSE IdIn(token_list, k)]]
        new_node == IF node_type = "rule"
                    THEN [type |-> node_type, accepting |-> node.accepting # 0,
                          rule_key |-> node.rule_key]
                    ELSE IF node_type = "token"
                    THEN [type |-> node_type, accepting |-> node.accepting # 0,
                          token |-> token_list[node.token + 1],
                          ordered_children |-> children]
                    ELSE [type |-> node_type, accepting |-> node.accepting # 0,
                          ordered_children |-> children]
    IN StripNode(new_node)

\* decompress_edge_data
decompress_edge_data(class_list, token_list, data) ==
    LET names == [prev_classes |-> NamesOrEmpty(class_list, data.constraints[1]),
                  prev_tokens |-> NamesOrEmpty(token_list, data.constraints[2]),
                  next_tokens |-> NamesOrEmpty(token_list, data.constraints[3]),
                  next_classes |-> NamesOrEmpty(class_list, data.constraints[4])]
        constraints == [k \in {k \in DOMAIN names : names[k] # <<>>} |-> names[k]]
        with_cost == IF data.constraints # <<>>
                     THEN [constraints |-> constraints, cost |-> decompressed_cost(data.cost)]
                     ELSE [cost |-> decompressed_cost(data.cost)]
    IN IF data.token # -1 THEN Put(with_cost, "token", token_list[data.token + 1])
       ELSE with_cost

\* decompress_config
decompress_config(compressed) ==
    LET class_list == compressed.class_list
        token_list == compressed.token_list
        unpacked == IF compressed.graph = <<>> THEN <<>>
                    ELSE LET g == compressed.graph[1]
                         IN <<[node |-> [k \in DOMAIN g.node |->
                                            decompress_node(g.nodetype_list, token_list, g.node[k])],
                               edge |-> [h \in DOMAIN g.edge |->
                                            [t \in DOMAIN g.edge[h] |->
                                                decompress_edge_data(class_list, token_list, g.edge[h][t])]]]>>
    IN [tokens |-> [t \in Range(token_list) |->
                       LET ids == compressed.tokens[IdIn(token_list, t) + 1]
                       IN [j \in DOMAIN ids |-> class_list[ids[j] + 1]]],
        rules |-> [i \in DOMAIN compressed.rules |->
                      LET r == compressed.rules[i]
                      IN [production |-> r.production,
                          prev_classes |-> NamesOrEmpty(class_list, r.prev_classes),
                          prev_tokens |-> NamesOrEmpty(token_list, r.prev_tokens),
                          tokens |-> [j \in DOMAIN r.tokens |-> token_list[r.tokens[j] + 1]],
                          next_tokens |-> NamesOrEmpty(token_list, r.next_tokens),
                          next_classes |-> NamesOrEmpty(class_list, r.next_classes),
                          cost |-> decompressed_cost(r.cost)]],
        whitespace |-> compressed.whitespace,
        onmatch_rules |-> [i \in DOMAIN compressed.onmatch_rules |->
                              LET r == compressed.onmatch_rules[i]
                              IN [prev_classes |-> [j \in DOMAIN r.prev_classes |-> class_list[r.prev_classes[j] + 1]],
                                  next_classes |-> [j \in DOMAIN r.next_classes |-> class_list[r.next_classes[j] + 1]],
                                  production |-> r.production]],
        graph |-> unpacked]

\* decompress_config(compress_config(dump(), compression_level)) on a
\* constructed engine
CompressDecompress ==
    /\ Callable
    /\ \E compression_level \in {1, 2} :
         LET config == dump(Self)
             compressed == compress_config(config, compression_level)
         IN /\ op' = "compress_config"
            /\ args' = [config |-> config, compression_level |-> compression_level]
            /\ ret' = IF compressed.status # "ok"
                      THEN [status |-> compressed.status, config |-> <<>>]
                      ELSE [status |-> "ok", config |-> decompress_config(compressed)]
    /\ UNCHANGED <<tokens, tokens_by_class, rules, onmatch_rules, whitespace,
                   ignore_errors, check_ambiguity, onmatch_rules_lookup,
                   tokenizer_pattern, graph, rule_keys, input_tokens, constructed>>
    /\ UNCHANGED aux

\* Rules of derived cost, with and without context, and a rule of cost 0.5.
CompressPool ==
    << TransliterationRule("AB", <<>>, <<>>, <<A, B>>, <<>>, <<"c1">>),
       TransliterationRule("wA", <<"wb">>, <<A>>, <<A>>, <<>>, <<>>),
       TransliterationRuleCosting("A5", <<A>>, 500),
       TransliterationRule("A", <<>>, <<>>, <<A>>, <<B>>, <<>>),
       TransliterationRule("B", <<>>, <<>>, <<B>>, <<>>, <<>>),
       TransliterationRule("_", <<>>, <<>>, <<SP>>, <<>>, <<>>) >>

\* Engines with up to MaxRules of these rules, with or without onmatch rules.
InitCompress ==
    InitEngine({RuleTokens}, SubSeqs(CompressPool, MaxRules),
               {<<>>, CoverageOnMatch}, BOOLEAN, {FALSE}, {FALSE})

NextCompress == Construct \/ CompressDecompress

SpecCompress == InitCompress /\ [][NextCompress]_vars

\* C22: decompress_config(compress_config(config)) of a dumped
\* configuration is reached without error and restores the tokens with their
\* classes, the rules in order with their context lists and cost, the
\* whitespace settings and the onmatch rules, and at compression level 1 the
\* nodes of the graph with their ordered children and the edges with their
\* cost and constraints.
C22_CompressionLossless ==
    op = "compress_config" =>
        /\ ret.status = "ok"
        /\ ret.config.tokens = args.config.tokens
        /\ ret.config.rules = args.config.rules
        /\ ret.config.whitespace.default = args.config.whitespace.default
        /\ ret.config.whitespace.token_class = args.config.whitespace.token_class
        /\ (ret.config.whitespace.consolidate = 1) <=> args.config.whitespace.consolidate
        /\ ret.config.onmatch_rules = args.config.onmatch_rules
        /\ args.compression_level = 1 =>
              /\ ret.config.graph # <<>>
              /\ ret.config.graph[1].node = args.config.graph.node
              /\ ret.config.graph[1].edge = args.config.graph.edge

-----------------------------------------------------------------------------
(* The matcher finds the rules that match, and no others.                  *)

\* The position lies between the two sentinels of the token list.
Inside(tks, p) == 1 <= p /\ p <= Len(tks) - 2

\* C23: on a token list bounded by sentinels and a position between them,
\* match_at with match_all=True returns a list that holds, exactly once,
\* every rule whose tokens and context match at the position.
C23_MatchAllComplete ==
    (op = "match_at" /\ args.match_all /\ Inside(args.tokens, args.token_i)) =>
        /\ ret.status = "ok"
        /\ \A k \in RuleKeys :
              RuleMatchesAt(rules[k + 1], args.tokens, args.token_i) =>
                  Cardinality({i \in DOMAIN ret.keys : ret.keys[i] = k}) = 1

\* C24: every rule match_at returns for a position, in either mode, has its
\* tokens on the segment that starts there, inside the token list, and its
\* context on the windows directly before and after the segment; so its
\* tokens are no more than the tokens remaining from the position.
C24_MatchSound ==
    (op = "match_at" /\ ret.status = "ok") =>
        \A k \in Range(ret.keys) :
            /\ RuleMatchesAt(rules[k + 1], args.tokens, args.token_i)
            /\ Len(rules[k + 1].tokens) <= Len(args.tokens) - args.token_i

-----------------------------------------------------------------------------
(* The costs on the edges of the graph.                                    *)

\* Rules of derived cost and rules whose cost is given: 0.5, 1 and 2.
CostPool ==
    << TransliterationRule("AB", <<>>, <<>>, <<A, B>>, <<>>, <<>>),
       TransliterationRuleCosting("A5", <<A>>, 500),
       TransliterationRule("A", <<>>, <<>>, <<A>>, <<>>, <<>>),
       TransliterationRule("B", <<>>, <<>>, <<B>>, <<>>, <<>>),
       TransliterationRuleCosting("B1", <<B>>, 1000),
       TransliterationRuleCosting("AB2", <<A, B>>, 2000) >>

\* Engines with up to MaxRules of these rules.
InitCost ==
    InitEngine({RuleTokens}, SubSeqs(CostPool, MaxRules), {<<>>}, {TRUE}, {FALSE}, {FALSE})

SpecCost == InitCost /\ [][NextMatch]_vars

\* The edges of the graph, as pairs of head and tail.
Edges == UNION {{<<h, t>> : t \in DOMAIN graph.edge[h]} : h \in DOMAIN graph.edge}

NodeOf(key) == graph.node[key + 1]

\* The tokens on the path from the root to a node.
RECURSIVE PathTo(_)
PathTo(key) ==
    IF key = 0 \/ \A e \in Edges : e[2] # key THEN <<>>
    ELSE LET e == CHOOSE e \in Edges : e[2] = key
         IN IF NodeOf(key)["type"] = "token"
            THEN Append(PathTo(e[1]), NodeOf(key)["token"])
            ELSE PathTo(e[1])

\* The tokens of the rule begin with the path.
PassesThrough(rule, path) ==
    Len(path) <= Len(rule.tokens) /\ SubSeq(rule.tokens, 1, Len(path)) = path

\* C25: after _graph_from, for rules of any positive cost, every edge to a
\* token node carries the least cost of the rules whose tokens pass through
\* it, and every edge to a rule leaf carries the cost of its rule.
C25_EdgeCosts ==
    op # "new" =>
        /\ constructed = "ok"
        /\ \A e \in Edges :
              LET data == graph.edge[e[1]][e[2]]
                  tail == NodeOf(e[2])
              IN /\ "cost" \in DOMAIN data
                 /\ tail["type"] = "token" =>
                       data["cost"] = Min({rules[i].cost : i \in
                           {i \in DOMAIN rules : PassesThrough(rules[i], PathTo(e[2]))}})
                 /\ tail["type"] = "rule" =>
                       data["cost"] = rules[tail["rule_key"] + 1].cost

-----------------------------------------------------------------------------
(* The shape of the graph.                                                 *)

ContextNames == {"prev_classes", "prev_tokens", "next_tokens", "next_classes"}

\* The keys of the nodes of the graph.
NodeKeys == 0..(Len(graph.node) - 1)

\* The children of a node that are token nodes, and those that are rules.
TokenChildren(h) == {e[2] : e \in {e \in Edges : e[1] = h /\ NodeOf(e[2])["type"] = "token"}}

RuleChildren(h) == {e[2] : e \in {e \in Edges : e[1] = h /\ NodeOf(e[2])["type"] = "rule"}}

\* The accepting leaves of a rule index.
LeavesOf(i) ==
    {k \in NodeKeys : /\ NodeOf(k)["type"] = "rule"
                      /\ NodeOf(k)["rule_key"] = i
                      /\ NodeOf(k)["accepting"]
                      /\ \A e \in Edges : e[1] # k}

\* C26: the graph built by _graph_from is a tree of shared prefixes: node 0
\* is the Start node, every other node has one incoming edge, no node has
\* two token children of one token, each rule index has one accepting leaf,
\* at the end of the path of its tokens, and constraints are only on the
\* edges to rule leaves, where they are the rule's non-empty context lists.
C26_SharedPrefixTree ==
    (op # "new" /\ constructed = "ok") =>
        /\ NodeOf(0)["type"] = "Start"
        /\ \A k \in NodeKeys \ {0} : Cardinality({e \in Edges : e[2] = k}) = 1
        /\ \A e \in Edges : e[2] # 0
        /\ \A h \in NodeKeys : \A t1, t2 \in TokenChildren(h) :
              NodeOf(t1)["token"] = NodeOf(t2)["token"] => t1 = t2
        /\ \A i \in RuleKeys :
              /\ Cardinality(LeavesOf(i)) = 1
              /\ \A k \in LeavesOf(i) : PathTo(k) = rules[i + 1].tokens
        /\ \A k \in NodeKeys : NodeOf(k)["type"] = "rule" => NodeOf(k)["rule_key"] \in RuleKeys
        /\ \A e \in Edges :
              LET data == graph.edge[e[1]][e[2]]
                  tail == NodeOf(e[2])
                  constraints == Get(data, "constraints")
              IN /\ tail["type"] = "token" => "constraints" \notin DOMAIN data
                 /\ tail["type"] = "rule" =>
                       \A c \in ContextNames :
                           LET list == rules[tail["rule_key"] + 1][c]
                           IN IF list = <<>> THEN c \notin DOMAIN constraints
                              ELSE c \in DOMAIN constraints /\ constraints[c] = list

\* A graph in which two rules share a token node, one of them ending there,
\* and a rule leaf has constraints on its edge.
C26_Witness ==
    /\ op # "new" /\ constructed = "ok"
    /\ \E h \in NodeKeys : TokenChildren(h) # {} /\ RuleChildren(h) # {}
    /\ \E k \in NodeKeys \ {0} : Cardinality(TokenChildren(k)) + Cardinality(RuleChildren(k)) >= 2
    /\ \E e \in Edges : "constraints" \in DOMAIN graph.edge[e[1]][e[2]]

-----------------------------------------------------------------------------
(* The order of the children.                                              *)

\* The cost on the edge from a node to one of its children.
EdgeCost(h, t) == graph.edge[h][t]["cost"]

\* The order of insertion the children of a node have: the token child
\* first, then the rule leaves by the index of their rule.
InsertedBefore(x, y) ==
    \/ NodeOf(x)["type"] = "token" /\ NodeOf(y)["type"] = "rule"
    \/ /\ NodeOf(x)["type"] = "rule" /\ NodeOf(y)["type"] = "rule"
       /\ NodeOf(x)["rule_key"] < NodeOf(y)["rule_key"]

\* The list holds each of the children once, by cost, and by insertion
\* where the costs are equal.
ListsInOrder(h, list, children) ==
    /\ Range(list) = children
    /\ Len(list) = Cardinality(children)
    /\ \A i, j \in DOMAIN list : i < j =>
          \/ EdgeCost(h, list[i]) < EdgeCost(h, list[j])
          \/ EdgeCost(h, list[i]) = EdgeCost(h, list[j]) /\ InsertedBefore(list[i], list[j])

\* C27: in the built graph, ordered_children[token] of a node lists its
\* token child of that token and all its rule leaves by edge cost, and
\* ordered_children['__rules__'] lists all its rule leaves by cost; entries
\* of equal cost are in the order of insertion, the token child before the
\* rule leaves and the rule leaves in the order of the rule indexes.
C27_OrderedChildren ==
    (op # "new" /\ constructed = "ok") =>
        \A h \in NodeKeys :
            LET ordered_children == NodeOf(h)["ordered_children"]
            IN /\ DOMAIN ordered_children =
                      {NodeOf(t)["token"] : t \in TokenChildren(h)}
                          \cup (IF RuleChildren(h) # {} THEN {RulesKey} ELSE {})
               /\ \A t \in TokenChildren(h) :
                      ListsInOrder(h, ordered_children[NodeOf(t)["token"]],
                                   {t} \cup RuleChildren(h))
               /\ RuleChildren(h) # {} =>
                      ListsInOrder(h, ordered_children[RulesKey], RuleChildren(h))

\* A node whose token child has a cheaper rule leaf before it and a rule
\* leaf of its own cost after it.
C27_Witness ==
    /\ op # "new" /\ constructed = "ok"
    /\ \E h \in NodeKeys : \E t \in TokenChildren(h) : \E r1, r2 \in RuleChildren(h) :
          /\ EdgeCost(h, r1) < EdgeCost(h, t)
          /\ EdgeCost(h, r2) = EdgeCost(h, t)
          /\ NodeOf(h)["ordered_children"][NodeOf(t)["token"]] = <<r1, t, r2>>

\* C28: on every engine built by _graph_from, every token list bounded by
\* sentinels and every position inside it, match_at runs to completion: no
\* assertion fails, no index is out of range, and every lookup made for
\* the constraints on previous tokens succeeds.
C28_MatchAtCompletes ==
    (op = "match_at" /\ Inside(args.tokens, args.token_i)) => ret.status = "ok"

-----------------------------------------------------------------------------
(* The loops of tokenize, match_at and transliterate, pass by pass.  While *)
(* a call runs, op names it, args holds its arguments and ret the locals   *)
(* of its loop, under the status "running"; then ret is its outcome.       *)

\* A variant of the pass that does not move on from an unrecognizable
\* character.
tokenize_pass_without_skip(self, input, local) ==
    LET match == TokenizerMatch(self.tokenizer_pattern, input, local.at)
    IN IF match # <<>>
       THEN [local EXCEPT !.at = @ + Len(match[1]), !.tokens = Append(@, match[1])]
       ELSE IF ~self.ignore_errors
            THEN [local EXCEPT !.status = "UnrecognizableInputTokenException"]
            ELSE local

\* One pass of the loop "while match_at < len(input)" of tokenize.
TokenizePass(self, input, local) ==
    LET match == TokenizerMatch(self.tokenizer_pattern, input, local.at)
    IN IF match # <<>>
       THEN LET token == match[1]
                end == local.at + Len(token)
            IN IF is_whitespace(self, token)
               THEN IF local.prev_whitespace /\ self.whitespace.consolidate
                    THEN [local EXCEPT !.at = end]
                    ELSE [local EXCEPT !.at = end, !.prev_whitespace = TRUE,
                                       !.tokens = Append(@, token)]
               ELSE [local EXCEPT !.at = end, !.prev_whitespace = FALSE,
                                  !.tokens = Append(@, token)]
       ELSE IF ~self.ignore_errors
            THEN [local EXCEPT !.status = "UnrecognizableInputTokenException"]
            ELSE [local EXCEPT !.at = @ + 1]

\* The end of tokenize, after its loop: trailing whitespace is removed if
\* whitespace is consolidated, and the final whitespace token is added.
TokenizeReturn(self, local) ==
    [local EXCEPT !.status = "ok",
                  !.tokens = Append(IF self.whitespace.consolidate
                                    THEN StripTrailing(self, @) ELSE @,
                                    self.whitespace.default)]

\* One pass of the loop "while stack" of match_at.
MatchPass(self, tks, match_all, local) ==
    LET node_key == local.stack[1][1]
        parent_key == local.stack[1][2]
        token_i == local.stack[1][3]
        rest == Tail(local.stack)
        curr_node == self.graph.node[node_key + 1]
        incident_edge == self.graph.edge[parent_key][node_key]
        accepting == "accepting" \in DOMAIN curr_node /\ curr_node["accepting"]
        constrained == IF accepting
                       THEN _match_constraints(self, incident_edge, curr_node,
                                               token_i, tks)
                       ELSE "False"
        next_i == IF token_i < Len(tks) - 1 THEN token_i + 1 ELSE token_i
    IN IF ~(token_i < Len(tks))
       THEN [local EXCEPT !.status = "AssertionError", !.stack = rest]
       ELSE IF constrained \notin {"True", "False"}
       THEN [local EXCEPT !.status = constrained, !.stack = rest]
       ELSE IF constrained = "True"
       THEN IF match_all
            THEN [local EXCEPT !.stack = rest,
                               !.keys = Append(@, curr_node["rule_key"])]
            ELSE [local EXCEPT !.status = "ok", !.stack = rest, !.type = "int",
                               !.keys = <<curr_node["rule_key"]>>]
       ELSE [local EXCEPT !.stack = _append_children(self, tks, rest, node_key, next_i)]

\* The end of match_at, after its loop: the list of matches, or None.
MatchReturn(match_all, local) ==
    [local EXCEPT !.status = "ok", !.type = IF match_all THEN "list" ELSE "None"]

\* The locals of match_at as its loop begins at token_i.
MatchStart(self, tks, token_i) ==
    [status |-> "running", type |-> "None", keys |-> <<>>,
     stack |-> _append_children(self, tks, <<>>, 0, token_i)]

\* No call of match_at is running.
NoMatch == [status |-> "none", type |-> "None", keys |-> <<>>, stack |-> <<>>]

\* A pass of the loop "while token_i < len(tokens) - 1" of transliterate
\* from the return of its call of match_at on.
TransliterateMatched(self, local, found) ==
    LET tks == local.tokens
        token_i == local.token_i
    IN IF found.status # "ok" THEN [local EXCEPT !.status = found.status]
       ELSE IF found.type = "None"
       THEN IF self.ignore_errors THEN [local EXCEPT !.token_i = @ + 1]
            ELSE [local EXCEPT !.status = "NoMatchingTransliterationRuleException"]
       ELSE LET rule_key == found.keys[1]
                rule == self.rules[rule_key + 1]
                onmatch == OnMatchAt(self, tks, token_i)
                inserted == IF onmatch = <<>> THEN ""
                            ELSE self.onmatch_rules[onmatch[1] + 1].production
            IN [local EXCEPT !.token_i = @ + Len(rule.tokens),
                             !.output = @ \o inserted \o rule.production,
                             !.rule_keys = Append(@, rule_key)]

\* The next step of transliterate in its loop: the pass begins with the
\* call of match_at, goes on with the passes of the loop of match_at, and
\* ends with what transliterate does with the rule key returned; after the
\* last pass transliterate returns.
TransliterateStepOf(self, local) ==
    IF local.match.status = "running"
    THEN LET found == IF local.match.stack # <<>>
                      THEN MatchPass(self, local.tokens, FALSE, local.match)
                      ELSE MatchReturn(FALSE, local.match)
         IN IF found.status = "running" THEN [local EXCEPT !.match = found]
            ELSE TransliterateMatched(self, [local EXCEPT !.match = NoMatch], found)
    ELSE IF local.token_i < Len(local.tokens) - 1
    THEN [local EXCEPT !.match = MatchStart(self, local.tokens, local.token_i)]
    ELSE [local EXCEPT !.status = "ok"]

\* The inputs of the calls run pass by pass.
StepInputs == SeqsUpTo(UNION {Range(t) : t \in DOMAIN tokens} \cup {"!"}, MaxStepInput)

StepTokenLists ==
    {<<whitespace.default>> \o s \o <<whitespace.default>> :
        s \in SeqsUpTo(DOMAIN tokens, MaxStepInput)}

\* A call is in its loop.
Running == op \in {"tokenize", "match_at", "transliterate"} /\ ret.status = "running"

EngineUnchanged ==
    UNCHANGED <<tokens, tokens_by_class, rules, onmatch_rules, whitespace,
                ignore_errors, check_ambiguity, onmatch_rules_lookup,
                tokenizer_pattern, graph, constructed>>

\* tokenize(input), up to its loop.
StartTokenize ==
    /\ Callable
    /\ \E input \in StepInputs :
          /\ op' = "tokenize"
          /\ args' = [input |-> input]
          /\ ret' = [status |-> "running", at |-> 0,
                     tokens |-> <<whitespace.default>>, prev_whitespace |-> TRUE]
    /\ EngineUnchanged
    /\ UNCHANGED <<rule_keys, input_tokens>>
    /\ UNCHANGED aux

\* The next pass of the loop of tokenize, or its end.
TokenizeNext ==
    /\ Running /\ op = "tokenize"
    /\ ret' = IF ret.at < Len(args.input) THEN TokenizePass(Self, args.input, ret)
              ELSE TokenizeReturn(Self, ret)
    /\ EngineUnchanged
    /\ UNCHANGED <<op, args, rule_keys, input_tokens>>
    /\ UNCHANGED aux

\* match_at(token_i, tokens, match_all), up to its loop.
StartMatchAt ==
    /\ Callable
    /\ \E tks \in StepTokenLists, match_all \in BOOLEAN :
         \E token_i \in 1..(Len(tks) - 2) :
          /\ op' = "match_at"
          /\ args' = [token_i |-> token_i, tokens |-> tks, match_all |-> match_all]
          /\ ret' = MatchStart(Self, tks, token_i)
    /\ EngineUnchanged
    /\ UNCHANGED <<rule_keys, input_tokens>>
    /\ UNCHANGED aux

\* The next pass of the loop of match_at, or its end.
MatchAtNext ==
    /\ Running /\ op = "match_at"
    /\ ret' = IF ret.stack # <<>> THEN MatchPass(Self, args.tokens, args.match_all, ret)
              ELSE MatchReturn(args.match_all, ret)
    /\ EngineUnchanged
    /\ UNCHANGED <<op, args, rule_keys, input_tokens>>
    /\ UNCHANGED aux

\* transliterate(input), up to its loop: the input is tokenized, and the
\* tokens are saved and the rule keys reset if that succeeds.
StartTransliterate ==
    /\ Callable
    /\ \E input \in StepInputs :
         LET tokenized == tokenize(Self, input)
         IN /\ op' = "transliterate"
            /\ args' = [input |-> input]
            /\ IF tokenized.status # "ok"
               THEN /\ ret' = [status |-> tokenized.status, tokens |-> <<>>,
                               token_i |-> 1, output |-> "", rule_keys |-> rule_keys,
                               match |-> NoMatch]
                    /\ UNCHANGED <<rule_keys, input_tokens>>
               ELSE /\ ret' = [status |-> "running", tokens |-> tokenized.tokens,
                               token_i |-> 1, output |-> "", rule_keys |-> <<>>,
                               match |-> NoMatch]
                    /\ rule_keys' = <<>>
                    /\ input_tokens' = <<tokenized.tokens>>
    /\ EngineUnchanged
    /\ UNCHANGED aux

\* The next step of the loop of transliterate, or its end.
TransliterateNext ==
    /\ Running /\ op = "transliterate"
    /\ ret' = TransliterateStepOf(Self, ret)
    /\ rule_keys' = ret'.rule_keys
    /\ EngineUnchanged
    /\ UNCHANGED <<op, args, input_tokens>>
    /\ UNCHANGED aux

\* Engines of up to MaxRules rules, in either error mode.
InitSteps ==
    InitEngine({RuleTokens}, SubSeqs(DrivePool, MaxRules), {<<>>}, {TRUE}, BOOLEAN, {FALSE})

LoopStep == TokenizeNext \/ MatchAtNext \/ TransliterateNext

NextSteps ==
    \/ Construct
    \/ StartTokenize \/ StartMatchAt \/ StartTransliterate
    \/ LoopStep

\* A call that has started goes on, pass after pass.
SpecSteps == InitSteps /\ [][NextSteps]_vars /\ WF_vars(LoopStep)

\* The number of edges from the root to a node.
RECURSIVE Depth(_)
Depth(key) ==
    IF key = 0 \/ \A e \in Edges : e[2] # key THEN 0
    ELSE Depth((CHOOSE e \in Edges : e[2] = key)[1]) + 1

\* The stack of the call of match_at that is running, if one is.
MatchStack(r) ==
    IF op = "match_at" THEN r.stack
    ELSE IF op = "transliterate" THEN r.match.stack
    ELSE <<>>

Matching(r) ==
    \/ op = "match_at" /\ r.status = "running"
    \/ op = "transliterate" /\ r.status = "running" /\ r.match.status = "running"

\* The frames a pass of match_at has put on the stack.
Pushed ==
    SubSeq(MatchStack(ret'), 1, Len(MatchStack(ret')) - (Len(MatchStack(ret)) - 1))

\* A pass after which the loop goes on has moved on: the tokenizer by a
\* character or more, transliterate by a token or more, match_at from a
\* frame to frames of the children of its node.
PassAdvances ==
    /\ (Running /\ Running' /\ op = "tokenize") => ret'.at >= ret.at + 1
    /\ (Running /\ Running' /\ op = "transliterate") =>
          IF Matching(ret) /\ ~Matching(ret') THEN ret'.token_i >= ret.token_i + 1
          ELSE ret'.token_i = ret.token_i
    /\ (Matching(ret) /\ Matching(ret') /\ MatchStack(ret) # <<>>) =>
          /\ Len(MatchStack(ret')) >= Len(MatchStack(ret)) - 1
          /\ SubSeq(MatchStack(ret'), Len(Pushed) + 1, Len(MatchStack(ret')))
                = Tail(MatchStack(ret))
          /\ \A k \in DOMAIN Pushed :
                /\ Pushed[k][2] = MatchStack(ret)[1][1]
                /\ Depth(Pushed[k][1]) = Depth(MatchStack(ret)[1][1]) + 1

\* C29: tokenize, match_at and transliterate terminate on every input: each
\* pass of the tokenizer loop moves on by at least one character, each pass
\* of the loop of transliterate by at least one token, every frame pushed
\* by match_at is of a node one deeper in the tree, and every call that has
\* started returns or raises.
C29_Terminates == [][PassAdvances]_vars /\ (Running ~> ~Running)

\* transliterate has returned after two passes or more, each with a match.
C29_Witness ==
    /\ op = "transliterate" /\ ret.status = "ok"
    /\ Len(ret.rule_keys) >= 2

-----------------------------------------------------------------------------
(* The rules matched by the last call.                                     *)

\* last_matched_rules
LastMatchedRules == [k \in DOMAIN rule_keys |-> rules[rule_keys[k] + 1]]

\* C30: after every transliterate call, whether it returns or raises,
\* last_matched_rules holds the rules matched during that call, in the
\* order they were matched, and no rule of an earlier call.
C30_OnlyRulesOfLastCall ==
    op = "transliterate" =>
        LastMatchedRules = [k \in DOMAIN ret.applied |-> rules[ret.applied[k].rule_key + 1]]

====
